---- MODULE Spec2Model ----
(***************************************************************************)
(* Order lifecycle of the oneclix ordering application.                    *)
(*                                                                         *)
(* The store (Supabase tables orders and order_items), the customer page   *)
(* (MenuPage.jsx: cart, submitOrder) and the owner dashboard               *)
(* (DashboardPage.jsx: loadData, advanceStatus) are modelled as one state  *)
(* machine.  Every await of the source is a point where other handlers     *)
(* and other sessions may run, so every store request is split into the    *)
(* step in which the store executes it and the step in which the caller    *)
(* continues after the await.                                              *)
(*                                                                         *)
(* SpecIntake explores the customer's form and submitOrder; Spec explores  *)
(* the orders of a filled form under two dashboard sessions; SpecSingle    *)
(* and SpecCancelled under one session that advances one order at a time.  *)
(* SpecRemoval adds unknown slugs and the deletion of a business,          *)
(* SpecAccess update requests of identities other than the owner,          *)
(* SpecNotifier and SpecReconnect the realtime channel of the dashboard,   *)
(* SpecPush the registration of push subscriptions (subscribeToPush) and   *)
(* SpecDispatch the notify-owner function of SETUP.md.  SpecNotify is the  *)
(* customer page with the call of notify-owner that SETUP.md adds to       *)
(* submitOrder, SpecCart the cart alone, SpecFrame and SpecConverge the    *)
(* advancing of two stored orders in one and in two sessions, and          *)
(* SpecCatalog the editing of products (AdminPage) around an intake.       *)
(*                                                                         *)
(* Money is counted in cents (numeric(10,2)).  A JavaScript double that    *)
(* holds an amount is counted in ticks, one tick = 1/100 cent, so that the *)
(* rounding error of floating-point arithmetic and the rounding done by    *)
(* toFixed(2) are both visible.                                            *)
(***************************************************************************)
EXTENDS Integers, Sequences, FiniteSets, Bags, TLC

\* ------------------------------------------------------------------ bounds
MaxOrders == 1      \* order rows the store accepts before intake is cut off
MaxInflight == 2    \* advanceStatus invocations awaiting the store at once
MaxClock == 2       \* distinct values new Date() returns
MaxQty == 2         \* units of one product in a cart

\* ------------------------------------------------------------- JS values
NULL == <<>>
Some(x) == <<x>>

\* Array.prototype.indexOf: 0-based position of the first match, -1 if none.
indexOf(arr, x) ==
  IF \E i \in 1..Len(arr) : arr[i] = x
    THEN (CHOOSE i \in 1..Len(arr) :
            arr[i] = x /\ \A j \in 1..(i - 1) : arr[j] # x) - 1
    ELSE -1

\* arr[i] of JavaScript, 0-based; out of range gives undefined.
JsAt(arr, i) ==
  IF i >= 0 /\ i < Len(arr) THEN arr[i + 1] ELSE "undefined"

\* String.prototype.trim on a string given as a sequence of characters.
RECURSIVE trimStart(_)
trimStart(str) ==
  IF str # <<>> /\ Head(str) = " " THEN trimStart(Tail(str)) ELSE str

RECURSIVE trimEnd(_)
trimEnd(str) ==
  IF str # <<>> /\ str[Len(str)] = " "
    THEN trimEnd(SubSeq(str, 1, Len(str) - 1))
    ELSE str

trim(str) == trimEnd(trimStart(str))

\* Number.prototype.toFixed(2) followed by parseFloat, on a double given in
\* ticks: the nearest amount in cents.
toFixed2_truncating(ticks) == ticks \div 100

toFixed2(ticks) == (ticks + 50) \div 100

\* Rounding error, in ticks, that a chain of double multiplications and
\* additions can leave on an amount of money.
FloatErr == {-1, 0, 1}

\* ------------------------------------------------------------ the schema
\* DashboardPage.jsx
STATUS_FLOW == <<"pending", "preparing", "ready", "fulfilled">>

\* The businesses and their menus, as set up by their owners.
DbBusinesses ==
  << [id |-> 1, slug |-> "cafe", owner_id |-> "owner1"],
     [id |-> 2, slug |-> "bar",  owner_id |-> "owner2"] >>

DbProducts ==
  << [id |-> 1, business_id |-> 1, name |-> "Latte",  price |-> 450,
      available |-> TRUE],
     [id |-> 2, business_id |-> 1, name |-> "Muffin", price |-> 300,
      available |-> TRUE],
     [id |-> 3, business_id |-> 2, name |-> "Ale",    price |-> 500,
      available |-> TRUE] >>

ProductIds == {DbProducts[i].id : i \in 1..Len(DbProducts)}

Customers == {"c1"}
\* Owner dashboard sessions: two devices of the same owner.
Sessions == {"s1", "s2"}

\* The :slug of the page a customer opens; no business has the last one.
Slugs == {"cafe", "bar", "nope"}

\* Who a request comes from: nobody signed in (the anon key alone), or the
\* signed-in user.
ANON == "anon"
Identities == {ANON, "owner1", "owner2"}

\* What pushManager.subscribe() can return on the devices of the owners:
\* the endpoint of the browser's subscription and its two keys.
Endpoints == {"e1", "e2", "e3"}
KeyPairs == {[p256dh |-> "p1", auth |-> "a1"], [p256dh |-> "p2", auth |-> "a2"]}

\* product_id of a line item whose product was deleted (SQL null).
NoProduct == 0

\* What an owner can put into the product form: a name and a price.
ProductNames == {"Latte", "Mocha"}
ProductPrices == {450, 500}

\* What a customer can type into the name and the note field.
Names == {<<>>, <<" ">>, <<" ", "J", " ">>}
Notes == {<<>>, <<"n", " ">>}

VARIABLES
  db_orders,        \* table orders: sequence of rows, id = position
  db_order_items,   \* table order_items: set of rows
  now,              \* the latest value new Date() returned
  \* MenuPage, one per customer
  business, products, cart, customerName, customerNote,
  submitting, confirmed, orderId,
  alert,            \* the alert() raised by the latest submitOrder call
  pc,               \* where the customer's submitOrder call stands
  req,              \* closure and awaited results of that call
  \* DashboardPage, one per owner session
  loading, ordersData, orders,
  calls,            \* bag of advanceStatus invocations awaiting the store
  \* who is signed in: auth.uid() of the requests a page sends
  uid,              \* in the browser of a customer
  user,             \* in an owner session (DashboardPage user)
  \* the rest of the store
  db_businesses,    \* table businesses: the set of rows
  uuid,             \* number of values uuid_generate_v4() has handed out
  db_products,      \* table products: the rows in sort_order
  db_push_subscriptions,  \* table push_subscriptions: the set of rows
  \* MenuPage, DashboardPage
  error,            \* MenuPage error: the shop was not found
  dash_business,    \* DashboardPage business
  \* the realtime channel of an owner session
  channel,          \* "none", "joined" or "closed"
  inbox,            \* events delivered to the session, handlers not yet run
  fetched,          \* answers to the INSERT handler's query, not yet applied
  \* push
  pushOn,           \* DashboardPage pushOn
  pushCalls,        \* subscribeToPush invocations awaiting the store
  dispatch          \* the run of the notify-owner function

storeVars == <<db_orders, db_order_items, now>>
menuVars == <<business, products, cart, customerName, customerNote,
              submitting, confirmed, orderId, alert, pc, req>>
formVars == <<cart, customerName, customerNote>>
dashVars == <<loading, ordersData, orders, calls>>
identVars == <<uid, user>>
catalogVars == <<db_businesses, uuid, db_products>>
notifyVars == <<channel, inbox, fetched>>
pushVars == <<db_push_subscriptions, pushOn, pushCalls, dispatch>>
\* What the order pages leave alone outside loading and the store's writes.
quietVars == <<identVars, catalogVars, error, dash_business, notifyVars,
               pushVars>>
vars == <<db_orders, db_order_items, now,
          business, products, cart, customerName, customerNote,
          submitting, confirmed, orderId, alert, pc, req,
          loading, ordersData, orders, calls,
          uid, user, db_businesses, uuid, db_products,
          db_push_subscriptions,
          error, dash_business, channel, inbox, fetched,
          pushOn, pushCalls, dispatch>>

\* No run of the notify-owner function.
NoDispatch == [phase |-> "idle", business_id |-> 0, read |-> FALSE,
               subs |-> {}, sent |-> {}, failed |-> {}, response |-> "none"]

NoReq ==
  [cartItems |-> <<>>, cart |-> <<>>, total |-> 0,
   order |-> NULL, orderErr |-> FALSE, denied |-> FALSE,
   notifyErr |-> FALSE, items |-> {}, itemsErr |-> FALSE]

\* ------------------------------------------------------------- the store
\* auth.uid(): null when nobody is signed in.
auth_uid(u) == IF u = ANON THEN NULL ELSE Some(u)

\* (select owner_id from businesses where id = business_id): null when the
\* business is not stored.
ownerIdOf(business_id) ==
  IF \E b \in db_businesses : b.id = business_id
    THEN Some((CHOOSE b \in db_businesses : b.id = business_id).owner_id)
    ELSE NULL

\* auth.uid() = (select owner_id ...): a comparison with null is not true.
isOwner(u, business_id) ==
  /\ auth_uid(u) # NULL
  /\ ownerIdOf(business_id) # NULL
  /\ auth_uid(u) = ownerIdOf(business_id)

\* The row level security policies on orders and push_subscriptions.
customersCanPlaceOrders(u, row) == TRUE

ownerReadsOwnOrders(u, row) == isOwner(u, row.business_id)

ownerUpdatesOwnOrders_open(u, row) == TRUE

ownerUpdatesOwnOrders(u, row) == isOwner(u, row.business_id)

ownerManagesPush(u, row) == isOwner(u, row.business_id)

ownerManagesProducts(u, row) == isOwner(u, row.business_id)

\* business_id references businesses(id)
businessExists(business_id) == \E b \in db_businesses : b.id = business_id

\* insert(row).select(): the statement is insert ... returning *, so the
\* new row has to reference a stored business, pass the insert policy and be
\* readable by the one who inserts it; otherwise the statement fails and
\* inserts nothing.
insertOrderAccepted_insertOnly(u, row) == customersCanPlaceOrders(u, row)

insertOrderAccepted(u, row) ==
  /\ businessExists(row.business_id)
  /\ customersCanPlaceOrders(u, row)
  /\ ownerReadsOwnOrders(u, row)

\* order_id references orders(id)
orderExists(order_id) == \E i \in 1..Len(db_orders) : db_orders[i].id = order_id

\* product_id references products(id)
productExists(product_id) ==
  \E i \in 1..Len(db_products) : db_products[i].id = product_id

\* insert(items), nothing returned: the rows have to reference a stored
\* order and stored products; the insert policy lets everybody in.
insertItemsAccepted(u, items) ==
  \A it \in items : orderExists(it.order_id) /\ productExists(it.product_id)

\* insert into orders: id from uuid_generate_v4(), fulfilled_at defaults to
\* null, status and the rest as given.
InsertOrderRow_stamped(row) ==
  Append(db_orders,
         [id |-> uuid + 1,
          business_id |-> row.business_id,
          customer_name |-> row.customer_name,
          customer_note |-> row.customer_note,
          status |-> row.status,
          total |-> row.total,
          fulfilled_at |-> Some(now)])

InsertOrderRow(row) ==
  Append(db_orders,
         [id |-> uuid + 1,
          business_id |-> row.business_id,
          customer_name |-> row.customer_name,
          customer_note |-> row.customer_note,
          status |-> row.status,
          total |-> row.total,
          fulfilled_at |-> NULL])

\* filter: `business_id=eq.${business.id}`, applied by the server.
channelFilter_any(business_id, row) == TRUE

channelFilter(business_id, row) == row.business_id = business_id

\* An event reaches a session while its channel is joined and the row
\* passes the channel's filter.
receives(s, ev) ==
  /\ channel[s] = "joined"
  /\ channelFilter(dash_business[s][1].id, ev.new)

\* postgres_changes of the publication supabase_realtime: the events of one
\* commit, appended to the inbox of every session that receives them.
publish(evs) ==
  [s \in DOMAIN inbox |->
     inbox[s] \o SelectSeq(evs, LAMBDA ev : receives(s, ev))]

\* select *, order_items(*) : a row of orders with its line items embedded.
WithItems(o) ==
  [id |-> o.id, business_id |-> o.business_id,
   customer_name |-> o.customer_name, customer_note |-> o.customer_note,
   status |-> o.status, total |-> o.total, fulfilled_at |-> o.fulfilled_at,
   order_items |-> {it \in db_order_items : it.order_id = o.id}]

\* ------------------------------------------------------------- MenuPage
\* load(): the business by slug, then its available products; an unknown
\* slug sets error and the page shows "Shop not found".
load(c, slug) ==
  /\ business[c] = NULL
  /\ ~error[c]
  /\ IF \E b \in db_businesses : b.slug = slug
       THEN LET biz == CHOOSE b \in db_businesses : b.slug = slug IN
            /\ business' = [business EXCEPT ![c] = Some(biz)]
            /\ products' = [products EXCEPT ![c] =
                              SelectSeq(db_products,
                                        LAMBDA p : p.business_id = biz.id
                                                   /\ p.available)]
            /\ UNCHANGED error
       ELSE /\ error' = [error EXCEPT ![c] = TRUE]
            /\ UNCHANGED <<business, products>>
  /\ UNCHANGED <<storeVars, formVars, submitting, confirmed, orderId,
                 alert, pc, req, dashVars,
                 identVars, catalogVars, dash_business, notifyVars, pushVars>>

\* The page body is rendered once the business is loaded; the confirmation
\* overlay covers it while confirmed.
FormOpen(c) == business[c] # NULL /\ ~confirmed[c]

\* c[id] || 0
Qty(crt, id) == IF id \in DOMAIN crt THEN crt[id] ELSE 0

addToCart(c, id) ==
  /\ FormOpen(c)
  /\ \E i \in 1..Len(products[c]) : products[c][i].id = id
  /\ Qty(cart[c], id) < MaxQty
  /\ cart' = [cart EXCEPT ![c] =
                [k \in DOMAIN cart[c] \cup {id} |->
                   IF k = id THEN Qty(cart[c], id) + 1 ELSE cart[c][k]]]
  /\ UNCHANGED <<storeVars, business, products, customerName, customerNote,
                 submitting, confirmed, orderId, alert, pc, req, dashVars,
                 quietVars>>

\* if (next[id] > 1) next[id]--; else delete next[id];
\* next[id] > 1 is false for an id the cart does not hold, and delete of
\* an absent key changes nothing.
removeOne_keepingEntry(crt, id) ==
  IF id \in DOMAIN crt THEN [crt EXCEPT ![id] = crt[id] - 1] ELSE crt

removeOne(crt, id) ==
  IF id \in DOMAIN crt /\ crt[id] > 1
    THEN [crt EXCEPT ![id] = crt[id] - 1]
    ELSE [k \in DOMAIN crt \ {id} |-> crt[k]]

removeFromCart(c, id) ==
  /\ FormOpen(c)
  /\ cart' = [cart EXCEPT ![c] = removeOne(cart[c], id)]
  /\ UNCHANGED <<storeVars, business, products, customerName, customerNote,
                 submitting, confirmed, orderId, alert, pc, req, dashVars,
                 quietVars>>

setCustomerName(c, name) ==
  /\ FormOpen(c)
  /\ customerName[c] # name
  /\ customerName' = [customerName EXCEPT ![c] = name]
  /\ UNCHANGED <<storeVars, business, products, cart, customerNote,
                 submitting, confirmed, orderId, alert, pc, req, dashVars,
                 quietVars>>

setCustomerNote(c, note) ==
  /\ FormOpen(c)
  /\ customerNote[c] # note
  /\ customerNote' = [customerNote EXCEPT ![c] = note]
  /\ UNCHANGED <<storeVars, business, products, cart, customerName,
                 submitting, confirmed, orderId, alert, pc, req, dashVars,
                 quietVars>>

\* products.filter(p => cart[p.id])
cartItemsOf(prods, crt) == SelectSeq(prods, LAMBDA p : Qty(crt, p.id) # 0)

cartItems(c) == cartItemsOf(products[c], cart[c])

\* The exact value, in cents, of the sum that cartTotal approximates.
RECURSIVE cartCents(_, _)
cartCents(items, crt) ==
  IF items = <<>> THEN 0
  ELSE Head(items).price * crt[Head(items).id] + cartCents(Tail(items), crt)

\* cartItems.reduce((s, p) => s + p.price * cart[p.id], 0), a double, in
\* ticks, with the rounding error err the double arithmetic left on it.
cartTotal(c, err) ==
  IF cartItems(c) = <<>> THEN 0
  ELSE cartCents(cartItems(c), cart[c]) * 100 + err

\* cartItems.map(p => ({ order_id, product_id, name, price, quantity }))
lineItems(order_id, items, crt) ==
  {[order_id |-> order_id, product_id |-> items[i].id,
    name |-> items[i].name, price |-> items[i].price,
    quantity |-> crt[items[i].id]] : i \in 1..Len(items)}

\* The row submitOrder sends to insert into orders.
orderRow(c, err) ==
  [business_id |-> business[c][1].id,
   customer_name |-> trim(customerName[c]),
   customer_note |-> IF trim(customerNote[c]) = <<>> THEN NULL
                     ELSE Some(trim(customerNote[c])),
   status |-> "pending",
   total |-> toFixed2(cartTotal(c, err))]

\* !customerName.trim()
nameMissing_untrimmed(c) == customerName[c] = <<>>

nameMissing(c) == trim(customerName[c]) = <<>>

\* cartItems.length === 0
cartEmpty(c) == Len(cartItems(c)) = 0

\* submitOrder up to its first await: the two validations, setSubmitting,
\* and the insert request for the order row.
submitOrder(c) ==
  /\ FormOpen(c)
  /\ pc[c] = "idle"
  /\ IF nameMissing(c)
       THEN /\ alert' = [alert EXCEPT ![c] = "name"]
            /\ UNCHANGED <<submitting, pc, req>>
     ELSE IF cartEmpty(c)
       THEN /\ alert' = [alert EXCEPT ![c] = "empty"]
            /\ UNCHANGED <<submitting, pc, req>>
     ELSE /\ Len(db_orders) < MaxOrders
          /\ \E err \in FloatErr :
               req' = [req EXCEPT ![c] =
                         [cartItems |-> cartItems(c), cart |-> cart[c],
                          total |-> orderRow(c, err).total,
                          order |-> Some(orderRow(c, err)),
                          orderErr |-> FALSE, denied |-> FALSE,
                          notifyErr |-> FALSE,
                          items |-> {}, itemsErr |-> FALSE]]
          /\ submitting' = [submitting EXCEPT ![c] = TRUE]
          /\ alert' = [alert EXCEPT ![c] = "none"]
          /\ pc' = [pc EXCEPT ![c] = "insert_order"]
  /\ UNCHANGED <<storeVars, business, products, formVars, confirmed,
                 orderId, dashVars,
                 quietVars>>

\* The store executes the insert of the order row and answers with the row,
\* or the request fails (ok is false) or is refused, and nothing is stored;
\* denied tells that orderErr is the store's refusal.
storeInsertOrder(c) ==
  /\ pc[c] = "insert_order"
  /\ \E ok \in BOOLEAN :
       IF ok /\ insertOrderAccepted(uid[c], req[c].order[1])
         THEN LET rows == InsertOrderRow(req[c].order[1])
                  row  == rows[Len(rows)] IN
              /\ db_orders' = rows
              /\ uuid' = uuid + 1
              /\ inbox' = publish(<<[type |-> "INSERT", new |-> row]>>)
              /\ req' = [req EXCEPT ![c].order = Some(row)]
         ELSE /\ UNCHANGED <<db_orders, uuid, inbox>>
              /\ req' = [req EXCEPT ![c].order = NULL,
                                    ![c].orderErr = TRUE,
                                    ![c].denied = ok]
  /\ pc' = [pc EXCEPT ![c] = "order_returned"]
  /\ UNCHANGED <<db_order_items, now, business, products, formVars,
                 submitting, confirmed, orderId, alert, dashVars,
                 identVars, db_businesses, db_products, error,
                 dash_business, channel, fetched, pushVars>>

\* submitOrder from the first await to the second: throw on orderErr, else
\* build the line items and send their insert.
submitOrderItems(c) ==
  /\ pc[c] = "order_returned"
  /\ IF req[c].orderErr
       THEN /\ alert' = [alert EXCEPT ![c] = "failed"]
            /\ submitting' = [submitting EXCEPT ![c] = FALSE]
            /\ pc' = [pc EXCEPT ![c] = "idle"]
            /\ req' = [req EXCEPT ![c] = NoReq]
       ELSE /\ req' = [req EXCEPT ![c].items =
                         lineItems(req[c].order[1].id, req[c].cartItems,
                                   req[c].cart)]
            /\ pc' = [pc EXCEPT ![c] = "insert_items"]
            /\ UNCHANGED <<alert, submitting>>
  /\ UNCHANGED <<storeVars, business, products, formVars, confirmed,
                 orderId, dashVars,
                 quietVars>>

\* The store executes the insert of the line items, or the request fails or
\* is refused.
storeInsertItems(c) ==
  /\ pc[c] = "insert_items"
  /\ \E ok \in BOOLEAN :
       IF ok /\ insertItemsAccepted(uid[c], req[c].items)
         THEN /\ db_order_items' = db_order_items \cup req[c].items
              /\ UNCHANGED req
         ELSE /\ UNCHANGED db_order_items
              /\ req' = [req EXCEPT ![c].itemsErr = TRUE]
  /\ pc' = [pc EXCEPT ![c] = "items_returned"]
  /\ UNCHANGED <<db_orders, now, business, products, formVars,
                 submitting, confirmed, orderId, alert, dashVars,
                 quietVars>>

\* submitOrder with step 6 of SETUP.md: after the order insert has
\* succeeded, await fetch(".../functions/v1/notify-owner", ...).  The call
\* uses order, which is declared inside the try block.
submitOrderNotify(c) ==
  /\ pc[c] = "order_returned"
  /\ IF req[c].orderErr
       THEN /\ alert' = [alert EXCEPT ![c] = "failed"]
            /\ submitting' = [submitting EXCEPT ![c] = FALSE]
            /\ pc' = [pc EXCEPT ![c] = "idle"]
            /\ req' = [req EXCEPT ![c] = NoReq]
       ELSE /\ pc' = [pc EXCEPT ![c] = "notify_sent"]
            /\ UNCHANGED <<alert, submitting, req>>
  /\ UNCHANGED <<storeVars, business, products, formVars, confirmed,
                 orderId, dashVars,
                 quietVars>>

\* The request reaches the function, which starts its run (read tells
\* whether its read of the subscriptions succeeds), or the request fails
\* (ok is false) and the promise of fetch rejects.
fetchNotifyOwner(c, ok, read) ==
  /\ pc[c] = "notify_sent"
  /\ IF ok
       THEN /\ dispatch.phase = "idle"
            /\ dispatch' =
                 [phase |-> "sending",
                  business_id |-> req[c].order[1].business_id,
                  read |-> read,
                  subs |-> IF read
                             THEN {sub \in db_push_subscriptions :
                                     sub.business_id =
                                       req[c].order[1].business_id}
                             ELSE {},
                  sent |-> {}, failed |-> {}, response |-> "none"]
            /\ pc' = [pc EXCEPT ![c] = "notify_running"]
            /\ UNCHANGED req
       ELSE /\ req' = [req EXCEPT ![c].notifyErr = TRUE]
            /\ pc' = [pc EXCEPT ![c] = "notify_returned"]
            /\ UNCHANGED dispatch
  /\ UNCHANGED <<storeVars, business, products, formVars, submitting,
                 confirmed, orderId, alert, dashVars, identVars,
                 catalogVars, error, dash_business, notifyVars,
                 db_push_subscriptions, pushOn, pushCalls>>

\* The answer of the function arrives and the promise of fetch resolves.
fetchNotifyOwnerFinish(c) ==
  /\ pc[c] = "notify_running"
  /\ dispatch.phase = "done"
  /\ dispatch' = NoDispatch
  /\ pc' = [pc EXCEPT ![c] = "notify_returned"]
  /\ UNCHANGED <<storeVars, business, products, formVars, submitting,
                 confirmed, orderId, alert, req, dashVars, identVars,
                 catalogVars, error, dash_business, notifyVars,
                 db_push_subscriptions, pushOn, pushCalls>>

\* submitOrder after the await of fetch: a rejection is thrown into the
\* catch block, else the line items are built and their insert is sent.
submitOrderAfterNotify(c) ==
  /\ pc[c] = "notify_returned"
  /\ IF req[c].notifyErr
       THEN /\ alert' = [alert EXCEPT ![c] = "failed"]
            /\ submitting' = [submitting EXCEPT ![c] = FALSE]
            /\ pc' = [pc EXCEPT ![c] = "idle"]
            /\ req' = [req EXCEPT ![c] = NoReq]
       ELSE /\ req' = [req EXCEPT ![c].items =
                         lineItems(req[c].order[1].id, req[c].cartItems,
                                   req[c].cart)]
            /\ pc' = [pc EXCEPT ![c] = "insert_items"]
            /\ UNCHANGED <<alert, submitting>>
  /\ UNCHANGED <<storeVars, business, products, formVars, confirmed,
                 orderId, dashVars,
                 quietVars>>

\* if (itemsErr) throw itemsErr
itemsFailed_unchecked(c) == FALSE

itemsFailed(c) == req[c].itemsErr

\* submitOrder after the second await: throw on itemsErr, else confirm;
\* finally setSubmitting(false).
submitOrderFinish(c) ==
  /\ pc[c] = "items_returned"
  /\ IF itemsFailed(c)
       THEN /\ alert' = [alert EXCEPT ![c] = "failed"]
            /\ UNCHANGED <<orderId, confirmed>>
       ELSE /\ orderId' = [orderId EXCEPT ![c] = Some(req[c].order[1].id)]
            /\ confirmed' = [confirmed EXCEPT ![c] = TRUE]
            /\ UNCHANGED alert
  /\ submitting' = [submitting EXCEPT ![c] = FALSE]
  /\ pc' = [pc EXCEPT ![c] = "idle"]
  /\ req' = [req EXCEPT ![c] = NoReq]
  /\ UNCHANGED <<storeVars, business, products, formVars, dashVars,
                 quietVars>>

\* "Order something else" on the confirmation overlay.
onOrderAgain(c) ==
  /\ confirmed[c]
  /\ cart' = [cart EXCEPT ![c] = <<>>]
  /\ customerName' = [customerName EXCEPT ![c] = <<>>]
  /\ customerNote' = [customerNote EXCEPT ![c] = <<>>]
  /\ confirmed' = [confirmed EXCEPT ![c] = FALSE]
  /\ orderId' = [orderId EXCEPT ![c] = NULL]
  /\ UNCHANGED <<storeVars, business, products, submitting, alert, pc, req,
                 dashVars,
                 quietVars>>

\* -------------------------------------------------------- DashboardPage
RECURSIVE Reverse(_)
Reverse(xs) == IF xs = <<>> THEN <<>> ELSE Append(Reverse(Tail(xs)), Head(xs))

\* from("orders").select("*, order_items(*)").eq("business_id", id)
\*   .order("created_at", { ascending: false }).limit(100)
\* asked by u, who is given the rows the policy "owner reads own orders"
\* lets through.
selectOrders(u, business_id) ==
  LET mine == SelectSeq(db_orders,
                        LAMBDA o : /\ o.business_id = business_id
                                   /\ ownerReadsOwnOrders(u, o))
      desc == Reverse(mine)
      cut  == SubSeq(desc, 1, IF Len(desc) < 100 THEN Len(desc) ELSE 100)
  IN  [i \in 1..Len(cut) |-> WithItems(cut[i])]

\* loadData up to setBusiness: the business of the signed-in owner.  An
\* owner without exactly one business is sent to /admin and the page is
\* left.
loadBusiness(s) ==
  /\ loading[s]
  /\ dash_business[s] = NULL
  /\ \E b \in db_businesses :
       /\ b.owner_id = user[s]
       /\ \A b2 \in db_businesses : b2.owner_id = user[s] => b2 = b
       /\ dash_business' = [dash_business EXCEPT ![s] = Some(b)]
  /\ UNCHANGED <<storeVars, menuVars, dashVars, identVars, catalogVars,
                 error, notifyVars, pushVars>>

\* loadData from setBusiness to the await of the orders query: the store
\* answers with the orders it holds at that moment.
loadData(s) ==
  /\ loading[s]
  /\ dash_business[s] # NULL
  /\ ordersData[s] = NULL
  /\ ordersData' = [ordersData EXCEPT ![s] =
                      Some(selectOrders(user[s], dash_business[s][1].id))]
  /\ UNCHANGED <<storeVars, menuVars, loading, orders, calls,
                 quietVars>>

\* loadData after the await: setOrders(ordersData || []), setLoading(false).
loadDataFinish(s) ==
  /\ loading[s]
  /\ ordersData[s] # NULL
  /\ orders' = [orders EXCEPT ![s] = ordersData[s][1]]
  /\ loading' = [loading EXCEPT ![s] = FALSE]
  /\ ordersData' = [ordersData EXCEPT ![s] = NULL]
  /\ UNCHANGED <<storeVars, menuVars, calls,
                 quietVars>>

\* The realtime effect, run once business is set: the channel with its two
\* handlers is subscribed.
subscribe(s) ==
  /\ dash_business[s] # NULL
  /\ channel[s] = "none"
  /\ channel' = [channel EXCEPT ![s] = "joined"]
  /\ UNCHANGED <<storeVars, menuVars, dashVars, identVars, catalogVars,
                 error, dash_business, inbox, fetched, pushVars>>

\* The connection of the channel is lost: events committed from now on do
\* not reach the session.
disconnect(s) ==
  /\ channel[s] = "joined"
  /\ channel' = [channel EXCEPT ![s] = "closed"]
  /\ UNCHANGED <<storeVars, menuVars, dashVars, identVars, catalogVars,
                 error, dash_business, inbox, fetched, pushVars>>

\* The client joins the channel again.  subscribe() is called without a
\* callback, so no code of the page runs at this point.
reconnect(s) ==
  /\ channel[s] = "closed"
  /\ channel' = [channel EXCEPT ![s] = "joined"]
  /\ UNCHANGED <<storeVars, menuVars, dashVars, identVars, catalogVars,
                 error, dash_business, inbox, fetched, pushVars>>

\* from("orders").select("*, order_items(*)").eq("id", id).single(), asked
\* by u: the row, or null when u may read no such row.
selectOrder(u, id) ==
  LET hit == SelectSeq(db_orders,
                       LAMBDA o : o.id = id /\ ownerReadsOwnOrders(u, o))
  IN  IF Len(hit) = 1 THEN Some(WithItems(hit[1])) ELSE NULL

\* The INSERT handler up to its await: the store answers the query for
\* the full order with what it holds at that moment.
onInsert(s) ==
  /\ inbox[s] # <<>>
  /\ Head(inbox[s]).type = "INSERT"
  /\ inbox' = [inbox EXCEPT ![s] = Tail(@)]
  /\ fetched' = [fetched EXCEPT ![s] =
                   Append(@, selectOrder(user[s], Head(inbox[s]).new.id))]
  /\ UNCHANGED <<storeVars, menuVars, dashVars, identVars, catalogVars,
                 error, dash_business, channel, pushVars>>

\* setOrders(prev => [data, ...prev])
prepend(data, prev) == <<data>> \o prev

\* The INSERT handler after its await, for the k-th answer outstanding:
\* if (data) the order is put in front of the list.
onInsertFinish(s, k) ==
  /\ k \in 1..Len(fetched[s])
  /\ fetched' = [fetched EXCEPT ![s] =
                   SubSeq(@, 1, k - 1) \o SubSeq(@, k + 1, Len(@))]
  /\ orders' = [orders EXCEPT ![s] =
                  IF fetched[s][k] # NULL
                    THEN prepend(fetched[s][k][1], @)
                    ELSE @]
  /\ UNCHANGED <<storeVars, menuVars, loading, ordersData, calls,
                 identVars, catalogVars, error, dash_business, channel,
                 inbox, pushVars>>

\* { ...o, ...payload.new }: the columns of the row over the list's entry,
\* its order_items kept.
merge(o, new) ==
  [id |-> new.id, business_id |-> new.business_id,
   customer_name |-> new.customer_name, customer_note |-> new.customer_note,
   status |-> new.status, total |-> new.total,
   fulfilled_at |-> new.fulfilled_at, order_items |-> o.order_items]

\* The UPDATE handler.
onUpdate(s) ==
  /\ inbox[s] # <<>>
  /\ Head(inbox[s]).type = "UPDATE"
  /\ inbox' = [inbox EXCEPT ![s] = Tail(@)]
  /\ orders' = [orders EXCEPT ![s] =
                  [i \in 1..Len(@) |->
                     IF @[i].id = Head(inbox[s]).new.id
                       THEN merge(@[i], Head(inbox[s]).new)
                       ELSE @[i]]]
  /\ UNCHANGED <<storeVars, menuVars, loading, ordersData, calls,
                 identVars, catalogVars, error, dash_business, channel,
                 fetched, pushVars>>

\* if (currentIdx >= STATUS_FLOW.length - 1) return;
isLastStatus(status) ==
  indexOf(STATUS_FLOW, status) >= Len(STATUS_FLOW) - 1

\* STATUS_FLOW[STATUS_FLOW.indexOf(order.status) + 1]
nextStatusOf_skipping(status) ==
  JsAt(STATUS_FLOW, indexOf(STATUS_FLOW, status) + 2)

nextStatusOf(status) == JsAt(STATUS_FLOW, indexOf(STATUS_FLOW, status) + 1)

\* new Date(): the clock never runs backwards, so a reading is the previous
\* one or a later one.
Readings == {t \in {now, now + 1} : t <= MaxClock}

\* The object passed to update(): the status, and fulfilled_at, read from
\* the clock as t, when the next status is fulfilled.
updatePayload(nextStatus, t) ==
  [status |-> nextStatus,
   fulfilled_at |-> IF nextStatus = "fulfilled" THEN Some(t) ELSE NULL]

\* The rows update(payload).eq("id", id) of u changes: those with that id
\* that the policy "owner updates own orders" lets u update.
updatedRows(u, id) ==
  {i \in 1..Len(db_orders) :
     db_orders[i].id = id /\ ownerUpdatesOwnOrders(u, db_orders[i])}

\* update(payload).eq("id", id) of u: every such row takes the payload's
\* columns, whatever the row holds.
applyUpdate_allRows(u, id, payload) ==
  [i \in 1..Len(db_orders) |->
     IF ownerUpdatesOwnOrders(u, db_orders[i])
       THEN [db_orders[i] EXCEPT
               !.status = payload.status,
               !.fulfilled_at = IF payload.fulfilled_at # NULL
                                  THEN payload.fulfilled_at
                                  ELSE db_orders[i].fulfilled_at]
       ELSE db_orders[i]]

applyUpdate(u, id, payload) ==
  [i \in 1..Len(db_orders) |->
     IF i \in updatedRows(u, id)
       THEN [db_orders[i] EXCEPT
               !.status = payload.status,
               !.fulfilled_at = IF payload.fulfilled_at # NULL
                                  THEN payload.fulfilled_at
                                  ELSE db_orders[i].fulfilled_at]
       ELSE db_orders[i]]

\* The invocations of advanceStatus that are at their await.
Inflight == BagToSet(calls)

Replace(old, new) == (calls (-) SetToBag({old})) (+) SetToBag({new})

\* advanceStatus(order) up to its await, on the i-th order of the session's
\* list: return at the end of the flow, else send the update.
advanceStatus(s, i) ==
  /\ ~loading[s]
  /\ i \in 1..Len(orders[s])
  /\ LET order == orders[s][i] IN
       IF isLastStatus(order.status)
         THEN UNCHANGED <<calls, now>>
         ELSE /\ BagCardinality(calls) < MaxInflight
              /\ \E t \in Readings :
                   /\ calls' = calls (+) SetToBag({
                        [sess |-> s, uid |-> user[s], id |-> order.id,
                         read |-> order.status,
                         payload |->
                           updatePayload(nextStatusOf(order.status), t),
                         phase |-> "update_sent", applied |-> FALSE]})
                   /\ now' = IF nextStatusOf(order.status) = "fulfilled"
                               THEN t ELSE now
  /\ UNCHANGED <<db_orders, db_order_items, menuVars, loading, ordersData,
                 orders,
                 quietVars>>

\* The UPDATE events of a commit that changed the rows at the positions in
\* changed, carrying the rows as they are in rows.
updateEvents(rows, changed) ==
  LET hit == SelectSeq(rows, LAMBDA o :
                 \E i \in changed : rows[i] = o)
  IN  [i \in 1..Len(hit) |-> [type |-> "UPDATE", new |-> hit[i]]]

\* The store executes the update of an invocation, or the request fails;
\* applied tells whether a row was updated.
storeUpdateOrderWith(call, ok) ==
  /\ call.phase = "update_sent"
  /\ LET changed == IF ok THEN updatedRows(call.uid, call.id) ELSE {}
         rows == IF ok THEN applyUpdate(call.uid, call.id, call.payload)
                 ELSE db_orders IN
       /\ db_orders' = rows
       /\ inbox' = publish(updateEvents(rows, changed))
       /\ calls' = Replace(call, [call EXCEPT !.phase = "update_returned",
                                              !.applied = changed # {}])
  /\ UNCHANGED <<db_order_items, now, menuVars, loading, ordersData, orders,
                 identVars, catalogVars, error, dash_business,
                 channel, fetched, pushVars>>

storeUpdateOrder(call) == \E ok \in BOOLEAN : storeUpdateOrderWith(call, ok)

\* advanceStatus after the await: the result of the update is not looked
\* at; the local list takes the next status and the toast is shown.
advanceStatusFinish(call) ==
  /\ call.phase = "update_returned"
  /\ call.sess \in Sessions
  /\ orders' = [orders EXCEPT ![call.sess] =
                  [i \in 1..Len(@) |->
                     IF @[i].id = call.id
                       THEN [@[i] EXCEPT !.status = call.payload.status]
                       ELSE @[i]]]
  /\ calls' = calls (-) SetToBag({call})
  /\ UNCHANGED <<storeVars, menuVars, loading, ordersData,
                 quietVars>>

\* A write of the one status value of the schema that no page of the
\* application writes: the owner's update policy and the check constraint
\* both admit it.
cancelOrder(id) ==
  /\ id \in 1..Len(db_orders)
  /\ db_orders[id].status \in {"pending", "preparing", "ready"}
  /\ db_orders' = [db_orders EXCEPT ![id].status = "cancelled"]
  /\ inbox' = publish(<<[type |-> "UPDATE",
                         new |-> [db_orders[id] EXCEPT
                                    !.status = "cancelled"]]>>)
  /\ UNCHANGED <<db_order_items, now, menuVars, dashVars,
                 identVars, catalogVars, error, dash_business,
                 channel, fetched, pushVars>>

\* Anybody who holds the public key of the project, signed in or not, can
\* send update(payload).eq("id", id) to the store; the policy "owner
\* updates own orders" decides what it changes.  One such request is under
\* way at a time.
apiUpdate(u, id, payload) ==
  /\ \A call \in Inflight : call.sess # "api"
  /\ orderExists(id)
  /\ calls' = calls (+) SetToBag({
       [sess |-> "api", uid |-> u, id |-> id,
        read |-> (CHOOSE o \in {db_orders[i] : i \in 1..Len(db_orders)} :
                    o.id = id).status,
        payload |-> payload, phase |-> "update_sent", applied |-> FALSE]})
  /\ UNCHANGED <<storeVars, menuVars, loading, ordersData, orders,
                 quietVars>>

\* The answer to such a request has arrived.
apiUpdateFinish(call) ==
  /\ call.phase = "update_returned"
  /\ call.sess = "api"
  /\ calls' = calls (-) SetToBag({call})
  /\ UNCHANGED <<storeVars, menuVars, loading, ordersData, orders,
                 quietVars>>

\* ------------------------------------------------------------------ push
\* The row subscribeToPush sends.
pushRow(business_id, endpoint, keys) ==
  [business_id |-> business_id, endpoint |-> endpoint,
   p256dh |-> keys.p256dh, auth |-> keys.auth]

\* The stored rows that conflict with row on the unique column endpoint.
conflicting(row) ==
  {sub \in db_push_subscriptions : sub.endpoint = row.endpoint}

\* upsert(row, { onConflict: "endpoint" }) of u is insert ... on conflict
\* (endpoint) do update: the policy "owner manages push" has to hold of the
\* row sent and of the stored row it would replace, otherwise the
\* statement fails.
upsertAccepted(u, row) ==
  /\ businessExists(row.business_id)
  /\ ownerManagesPush(u, row)
  /\ \A sub \in conflicting(row) : ownerManagesPush(u, sub)

\* The table after the statement: the row sent in place of the row with
\* its endpoint, if there is one.
upsert_ignoreDuplicates(row) ==
  IF conflicting(row) = {} THEN db_push_subscriptions \cup {row}
  ELSE db_push_subscriptions

upsert(row) == (db_push_subscriptions \ conflicting(row)) \cup {row}

\* handleEnablePush and subscribeToPush(business.id) up to the await of the
\* upsert.  Without support for push, without permission, or when
\* subscribing throws (granted is false), it returns false and pushOn is
\* set to false.
subscribeToPush(s, granted, endpoint, keys) ==
  /\ ~loading[s]
  /\ dash_business[s] # NULL
  /\ \A call \in pushCalls : call.sess # s
  /\ IF granted
       THEN /\ pushCalls' = pushCalls \cup {
                 [sess |-> s, uid |-> user[s],
                  row |-> pushRow(dash_business[s][1].id, endpoint, keys),
                  phase |-> "upsert_sent", err |-> FALSE, denied |-> FALSE]}
            /\ UNCHANGED pushOn
       ELSE /\ pushOn' = [pushOn EXCEPT ![s] = FALSE]
            /\ UNCHANGED pushCalls
  /\ UNCHANGED <<storeVars, menuVars, dashVars, identVars, catalogVars,
                 error, dash_business, notifyVars, db_push_subscriptions,
                 dispatch>>

\* The store executes the upsert, or the request fails (ok is false) or is
\* refused (denied).
storeUpsertPush(call) ==
  /\ call.phase = "upsert_sent"
  /\ \E ok \in BOOLEAN :
       IF ok /\ upsertAccepted(call.uid, call.row)
         THEN /\ db_push_subscriptions' = upsert(call.row)
              /\ pushCalls' = (pushCalls \ {call}) \cup
                                {[call EXCEPT !.phase = "returned"]}
         ELSE /\ UNCHANGED db_push_subscriptions
              /\ pushCalls' = (pushCalls \ {call}) \cup
                                {[call EXCEPT !.phase = "returned",
                                              !.err = TRUE, !.denied = ok]}
  /\ UNCHANGED <<storeVars, menuVars, dashVars, identVars, catalogVars,
                 error, dash_business, notifyVars, pushOn, dispatch>>

\* subscribeToPush after the await: the result of the upsert is not looked
\* at, and a refusal is a result, not an exception; it returns true, and
\* handleEnablePush sets pushOn.
subscribeToPushFinish(call) ==
  /\ call.phase = "returned"
  /\ pushOn' = [pushOn EXCEPT ![call.sess] = TRUE]
  /\ pushCalls' = pushCalls \ {call}
  /\ UNCHANGED <<storeVars, menuVars, dashVars, identVars, catalogVars,
                 error, dash_business, notifyVars, db_push_subscriptions,
                 dispatch>>

\* The notify-owner function up to Promise.all, for a request that names a
\* business and carries the order: it reads, with the service role, the
\* subscriptions of the business, and starts a sendNotification for each of
\* them.  When the read fails (ok is false) subs is null and (subs || [])
\* is empty.
notifyOwner(businessId, ok) ==
  /\ dispatch.phase = "idle"
  /\ dispatch' = [phase |-> "sending", business_id |-> businessId,
                  read |-> ok,
                  subs |-> IF ok
                             THEN {sub \in db_push_subscriptions :
                                     sub.business_id = businessId}
                             ELSE {},
                  sent |-> {}, failed |-> {}, response |-> "none"]
  /\ UNCHANGED <<storeVars, menuVars, dashVars, identVars, catalogVars,
                 error, dash_business, notifyVars, db_push_subscriptions,
                 pushOn, pushCalls>>

\* One sendNotification settles: delivered, or rejected and caught by
\* .catch(console.error).
sendNotification(sub, ok) ==
  /\ dispatch.phase = "sending"
  /\ sub \in dispatch.subs \ (dispatch.sent \cup dispatch.failed)
  /\ dispatch' = IF ok
                   THEN [dispatch EXCEPT !.sent = @ \cup {sub}]
                   ELSE [dispatch EXCEPT !.failed = @ \cup {sub}]
  /\ UNCHANGED <<storeVars, menuVars, dashVars, identVars, catalogVars,
                 error, dash_business, notifyVars, db_push_subscriptions,
                 pushOn, pushCalls>>

\* What the function answers once Promise.all has settled: every rejection
\* was caught, so it is new Response("ok").
dispatchResponse_uncaught(failed) == IF failed = {} THEN "ok" ELSE "error"

dispatchResponse(failed) == "ok"

\* Promise.all settles and the function answers.
notifyOwnerFinish ==
  /\ dispatch.phase = "sending"
  /\ dispatch.sent \cup dispatch.failed = dispatch.subs
  /\ dispatch' = [dispatch EXCEPT
                    !.phase = "done",
                    !.response = dispatchResponse(dispatch.failed)]
  /\ UNCHANGED <<storeVars, menuVars, dashVars, identVars, catalogVars,
                 error, dash_business, notifyVars, db_push_subscriptions,
                 pushOn, pushCalls>>

\* --------------------------------------------------------------- products
\* AdminPage of the owner signed in in s lists the products of the
\* owner's business; this one is stored.
Listed(s, id) ==
  \E i \in 1..Len(db_products) :
    /\ db_products[i].id = id
    /\ isOwner(user[s], db_products[i].business_id)

\* update(payload).eq("id", id) on products, sent by u.
updateProduct(u, id, payload) ==
  [i \in 1..Len(db_products) |->
     IF db_products[i].id = id /\ ownerManagesProducts(u, db_products[i])
       THEN [db_products[i] EXCEPT !.name = payload.name,
                                   !.price = payload.price,
                                   !.available = payload.available]
       ELSE db_products[i]]

\* saveProduct for a product that is being edited (editingProduct.id is
\* set) with a name and a valid price: the update of its row; the request
\* can fail (ok is false).  What follows the await touches the product list
\* of the page only.
saveProduct(s, id, name, price, available, ok) ==
  /\ Listed(s, id)
  /\ db_products' =
       IF ok
         THEN updateProduct(user[s], id,
                            [name |-> name, price |-> price,
                             available |-> available])
         ELSE db_products
  /\ UNCHANGED <<storeVars, menuVars, dashVars, identVars, db_businesses,
                 uuid, error, dash_business, notifyVars, pushVars>>

\* toggleAvailability(product): update({ available: !product.available }),
\* shown being the value the page shows.
toggleAvailability(s, id, shown, ok) ==
  /\ Listed(s, id)
  /\ db_products' =
       IF ok
         THEN [i \in 1..Len(db_products) |->
                 IF /\ db_products[i].id = id
                    /\ ownerManagesProducts(user[s], db_products[i])
                   THEN [db_products[i] EXCEPT !.available = ~shown]
                   ELSE db_products[i]]
         ELSE db_products
  /\ UNCHANGED <<storeVars, menuVars, dashVars, identVars, db_businesses,
                 uuid, error, dash_business, notifyVars, pushVars>>

\* order_items.product_id references products(id) on delete set null: what
\* the line items are after the product with this id is deleted.
itemsAfterDelete_cascade(id) ==
  {it \in db_order_items : it.product_id # id}

itemsAfterDelete(id) ==
  {IF it.product_id = id THEN [it EXCEPT !.product_id = NoProduct] ELSE it :
     it \in db_order_items}

\* deleteProduct(id), confirmed by the owner: delete().eq("id", id).
deleteProduct(s, id, ok) ==
  /\ Listed(s, id)
  /\ LET gone == {i \in 1..Len(db_products) :
                    /\ ok
                    /\ db_products[i].id = id
                    /\ ownerManagesProducts(user[s], db_products[i])} IN
       /\ db_products' = SelectSeq(db_products, LAMBDA p :
                            \A i \in gone : db_products[i] # p)
       /\ db_order_items' = IF gone # {} THEN itemsAfterDelete(id)
                            ELSE db_order_items
  /\ UNCHANGED <<db_orders, now, menuVars, dashVars, identVars,
                 db_businesses, uuid, error, dash_business, notifyVars,
                 pushVars>>

\* The owner deletes the business (policy "owner full access"); on delete
\* cascade takes its orders, their line items and its push subscriptions.
deleteBusiness(b) ==
  /\ b \in db_businesses
  /\ db_businesses' = db_businesses \ {b}
  /\ db_orders' = SelectSeq(db_orders, LAMBDA o : o.business_id # b.id)
  /\ db_order_items' =
       {it \in db_order_items :
          \E i \in 1..Len(db_orders) :
            db_orders[i].id = it.order_id /\ db_orders[i].business_id # b.id}
  /\ db_push_subscriptions' =
       {sub \in db_push_subscriptions : sub.business_id # b.id}
  /\ db_products' = SelectSeq(db_products, LAMBDA p : p.business_id # b.id)
  /\ UNCHANGED <<now, uuid, menuVars, dashVars, identVars, error,
                 dash_business, notifyVars, pushOn, pushCalls, dispatch>>

\* ------------------------------------------------------------ the specs
\* All pages just opened, the store without orders; the customer is not
\* signed in, or is signed in as the owner of the cafe.
Init ==
  /\ db_orders = <<>>
  /\ db_order_items = {}
  /\ now = 1
  /\ business = [c \in Customers |-> NULL]
  /\ products = [c \in Customers |-> <<>>]
  /\ cart = [c \in Customers |-> <<>>]
  /\ customerName = [c \in Customers |-> <<>>]
  /\ customerNote = [c \in Customers |-> <<>>]
  /\ submitting = [c \in Customers |-> FALSE]
  /\ confirmed = [c \in Customers |-> FALSE]
  /\ orderId = [c \in Customers |-> NULL]
  /\ alert = [c \in Customers |-> "none"]
  /\ pc = [c \in Customers |-> "idle"]
  /\ req = [c \in Customers |-> NoReq]
  /\ loading = [s \in Sessions |-> TRUE]
  /\ ordersData = [s \in Sessions |-> NULL]
  /\ orders = [s \in Sessions |-> <<>>]
  /\ calls = EmptyBag
  /\ uid \in [Customers -> {ANON, "owner1"}]
  /\ user = [s \in Sessions |-> "owner1"]
  /\ db_businesses = {DbBusinesses[i] : i \in 1..Len(DbBusinesses)}
  /\ uuid = 0
  /\ db_products = DbProducts
  /\ db_push_subscriptions = {}
  /\ error = [c \in Customers |-> FALSE]
  /\ dash_business = [s \in Sessions |-> NULL]
  /\ channel = [s \in Sessions |-> "none"]
  /\ inbox = [s \in Sessions |-> <<>>]
  /\ fetched = [s \in Sessions |-> <<>>]
  /\ pushOn = [s \in Sessions |-> FALSE]
  /\ pushCalls = {}
  /\ dispatch = NoDispatch

\* The same, the customer signed in as anybody or nobody.
InitAny ==
  /\ db_orders = <<>>
  /\ db_order_items = {}
  /\ now = 1
  /\ business = [c \in Customers |-> NULL]
  /\ products = [c \in Customers |-> <<>>]
  /\ cart = [c \in Customers |-> <<>>]
  /\ customerName = [c \in Customers |-> <<>>]
  /\ customerNote = [c \in Customers |-> <<>>]
  /\ submitting = [c \in Customers |-> FALSE]
  /\ confirmed = [c \in Customers |-> FALSE]
  /\ orderId = [c \in Customers |-> NULL]
  /\ alert = [c \in Customers |-> "none"]
  /\ pc = [c \in Customers |-> "idle"]
  /\ req = [c \in Customers |-> NoReq]
  /\ loading = [s \in Sessions |-> TRUE]
  /\ ordersData = [s \in Sessions |-> NULL]
  /\ orders = [s \in Sessions |-> <<>>]
  /\ calls = EmptyBag
  /\ uid \in [Customers -> Identities]
  /\ user = [s \in Sessions |-> "owner1"]
  /\ db_businesses = {DbBusinesses[i] : i \in 1..Len(DbBusinesses)}
  /\ uuid = 0
  /\ db_products = DbProducts
  /\ db_push_subscriptions = {}
  /\ error = [c \in Customers |-> FALSE]
  /\ dash_business = [s \in Sessions |-> NULL]
  /\ channel = [s \in Sessions |-> "none"]
  /\ inbox = [s \in Sessions |-> <<>>]
  /\ fetched = [s \in Sessions |-> <<>>]
  /\ pushOn = [s \in Sessions |-> FALSE]
  /\ pushCalls = {}
  /\ dispatch = NoDispatch

\* One customer filling in the form and placing orders.
NextIntake ==
  \/ \E slug \in {"cafe", "nope"} : load("c1", slug)
  \/ \E id \in ProductIds : addToCart("c1", id)
  \/ \E id \in ProductIds : removeFromCart("c1", id)
  \/ \E name \in Names : setCustomerName("c1", name)
  \/ \E note \in Notes : setCustomerNote("c1", note)
  \/ submitOrder("c1")
  \/ storeInsertOrder("c1")
  \/ submitOrderItems("c1")
  \/ storeInsertItems("c1")
  \/ submitOrderFinish("c1")
  \/ onOrderAgain("c1")

SpecIntake == Init /\ [][NextIntake]_vars

\* The cart Latte x 2, Muffin x 1.
FilledCart == (1 :> 2) @@ (2 :> 1)

\* A customer who has opened the page and filled in the form (a state that
\* SpecIntake reaches), before any order is placed; no dashboard is open.
InitLifecycle ==
  /\ db_orders = <<>>
  /\ db_order_items = {}
  /\ now = 1
  /\ business = [c \in Customers |-> Some(DbBusinesses[1])]
  /\ products = [c \in Customers |->
                   SelectSeq(DbProducts, LAMBDA p : p.business_id = 1)]
  /\ cart = [c \in Customers |-> IF c = "c1" THEN FilledCart ELSE (2 :> 1)]
  /\ customerName = [c \in Customers |-> <<" ", "J", " ">>]
  /\ customerNote = [c \in Customers |-> <<>>]
  /\ submitting = [c \in Customers |-> FALSE]
  /\ confirmed = [c \in Customers |-> FALSE]
  /\ orderId = [c \in Customers |-> NULL]
  /\ alert = [c \in Customers |-> "none"]
  /\ pc = [c \in Customers |-> "idle"]
  /\ req = [c \in Customers |-> NoReq]
  /\ loading = [s \in Sessions |-> TRUE]
  /\ ordersData = [s \in Sessions |-> NULL]
  /\ orders = [s \in Sessions |-> <<>>]
  /\ calls = EmptyBag
  /\ uid = [c \in Customers |-> "owner1"]
  /\ user = [s \in Sessions |-> "owner1"]
  /\ db_businesses = {DbBusinesses[i] : i \in 1..Len(DbBusinesses)}
  /\ uuid = 0
  /\ db_products = DbProducts
  /\ db_push_subscriptions = {}
  /\ error = [c \in Customers |-> FALSE]
  /\ dash_business = [s \in Sessions |-> Some(DbBusinesses[1])]
  /\ channel = [s \in Sessions |-> "none"]
  /\ inbox = [s \in Sessions |-> <<>>]
  /\ fetched = [s \in Sessions |-> <<>>]
  /\ pushOn = [s \in Sessions |-> FALSE]
  /\ pushCalls = {}
  /\ dispatch = NoDispatch

\* The steps of a customer's submitOrder and of the store serving it.
IntakeSteps ==
  \/ \E c \in Customers : submitOrder(c)
  \/ \E c \in Customers : storeInsertOrder(c)
  \/ \E c \in Customers : submitOrderItems(c)
  \/ \E c \in Customers : storeInsertItems(c)
  \/ \E c \in Customers : submitOrderFinish(c)

\* The steps of the store serving advanceStatus, and their continuations.
UpdateSteps ==
  \/ \E call \in Inflight : storeUpdateOrder(call)
  \/ \E call \in Inflight : advanceStatusFinish(call)

\* A customer placing orders while two owner sessions load and advance them.
Next ==
  \/ IntakeSteps
  \/ \E s \in Sessions : loadData(s)
  \/ \E s \in Sessions : loadDataFinish(s)
  \/ \E s \in Sessions : \E i \in 1..MaxOrders : advanceStatus(s, i)
  \/ UpdateSteps

Spec == InitLifecycle /\ [][Next]_vars

\* A customer of any shop, with one product and one name to enter, while
\* the owners may delete their businesses.
NextRemoval ==
  \/ \E slug \in Slugs : load("c1", slug)
  \/ \E id \in {1, 3} : addToCart("c1", id)
  \/ setCustomerName("c1", <<" ", "J", " ">>)
  \/ IntakeSteps
  \/ onOrderAgain("c1")
  \/ \E b \in db_businesses : deleteBusiness(b)

SpecRemoval == InitAny /\ [][NextRemoval]_vars

\* The same with one owner session only, whose owner taps an advance button
\* only when the previous advanceStatus has returned.
NextSingle ==
  \/ IntakeSteps
  \/ loadData("s1")
  \/ loadDataFinish("s1")
  \/ \E i \in 1..MaxOrders : calls = EmptyBag /\ advanceStatus("s1", i)
  \/ UpdateSteps

SpecSingle == InitLifecycle /\ [][NextSingle]_vars

\* A customer of the cafe or of the bar with the form filled in, signed in
\* as the owner of the shop, and the owner of the cafe about to open the
\* dashboard.
InitNotifier ==
  /\ db_orders = <<>>
  /\ db_order_items = {}
  /\ now = 1
  /\ \E b \in {1, 2} :
       /\ business = [c \in Customers |-> Some(DbBusinesses[b])]
       /\ uid = [c \in Customers |-> DbBusinesses[b].owner_id]
       /\ products = [c \in Customers |->
                        SelectSeq(DbProducts,
                                  LAMBDA p : p.business_id = b)]
       /\ cart = [c \in Customers |->
                    IF b = 1 THEN FilledCart ELSE (3 :> 1)]
  /\ customerName = [c \in Customers |-> <<" ", "J", " ">>]
  /\ customerNote = [c \in Customers |-> <<>>]
  /\ submitting = [c \in Customers |-> FALSE]
  /\ confirmed = [c \in Customers |-> FALSE]
  /\ orderId = [c \in Customers |-> NULL]
  /\ alert = [c \in Customers |-> "none"]
  /\ pc = [c \in Customers |-> "idle"]
  /\ req = [c \in Customers |-> NoReq]
  /\ loading = [s \in Sessions |-> TRUE]
  /\ ordersData = [s \in Sessions |-> NULL]
  /\ orders = [s \in Sessions |-> <<>>]
  /\ calls = EmptyBag
  /\ user = [s \in Sessions |-> "owner1"]
  /\ db_businesses = {DbBusinesses[i] : i \in 1..Len(DbBusinesses)}
  /\ uuid = 0
  /\ db_products = DbProducts
  /\ db_push_subscriptions = {}
  /\ error = [c \in Customers |-> FALSE]
  /\ dash_business = [s \in Sessions |-> NULL]
  /\ channel = [s \in Sessions |-> "none"]
  /\ inbox = [s \in Sessions |-> <<>>]
  /\ fetched = [s \in Sessions |-> <<>>]
  /\ pushOn = [s \in Sessions |-> FALSE]
  /\ pushCalls = {}
  /\ dispatch = NoDispatch

\* The dashboard of the cafe opening, subscribing and handling events,
\* while orders are placed and their owners, on other devices, move them
\* to preparing.
NextNotifier ==
  \/ IntakeSteps
  \/ loadBusiness("s1")
  \/ loadData("s1")
  \/ loadDataFinish("s1")
  \/ subscribe("s1")
  \/ onInsert("s1")
  \/ \E k \in 1..MaxOrders : onInsertFinish("s1", k)
  \/ onUpdate("s1")
  \/ \E u \in {"owner1", "owner2"} : \E id \in 1..Len(db_orders) :
       /\ db_orders[id].status = "pending"
       /\ apiUpdate(u, db_orders[id].id, updatePayload("preparing", now))
  \/ \E call \in Inflight : storeUpdateOrder(call)
  \/ \E call \in Inflight : apiUpdateFinish(call)

SpecNotifier == InitNotifier /\ [][NextNotifier]_vars

\* The dashboard of the cafe loaded and subscribed before any order is
\* placed.
InitJoined ==
  /\ db_orders = <<>>
  /\ db_order_items = {}
  /\ now = 1
  /\ business = [c \in Customers |-> Some(DbBusinesses[1])]
  /\ products = [c \in Customers |->
                   SelectSeq(DbProducts, LAMBDA p : p.business_id = 1)]
  /\ cart = [c \in Customers |-> FilledCart]
  /\ customerName = [c \in Customers |-> <<" ", "J", " ">>]
  /\ customerNote = [c \in Customers |-> <<>>]
  /\ submitting = [c \in Customers |-> FALSE]
  /\ confirmed = [c \in Customers |-> FALSE]
  /\ orderId = [c \in Customers |-> NULL]
  /\ alert = [c \in Customers |-> "none"]
  /\ pc = [c \in Customers |-> "idle"]
  /\ req = [c \in Customers |-> NoReq]
  /\ loading = [s \in Sessions |-> s # "s1"]
  /\ ordersData = [s \in Sessions |-> NULL]
  /\ orders = [s \in Sessions |-> <<>>]
  /\ calls = EmptyBag
  /\ uid = [c \in Customers |-> "owner1"]
  /\ user = [s \in Sessions |-> "owner1"]
  /\ db_businesses = {DbBusinesses[i] : i \in 1..Len(DbBusinesses)}
  /\ uuid = 0
  /\ db_products = DbProducts
  /\ db_push_subscriptions = {}
  /\ error = [c \in Customers |-> FALSE]
  /\ dash_business = [s \in Sessions |->
                        IF s = "s1" THEN Some(DbBusinesses[1]) ELSE NULL]
  /\ channel = [s \in Sessions |-> IF s = "s1" THEN "joined" ELSE "none"]
  /\ inbox = [s \in Sessions |-> <<>>]
  /\ fetched = [s \in Sessions |-> <<>>]
  /\ pushOn = [s \in Sessions |-> FALSE]
  /\ pushCalls = {}
  /\ dispatch = NoDispatch

\* That dashboard handling the events of new orders while its connection
\* comes and goes.
NextReconnect ==
  \/ IntakeSteps
  \/ \E c \in Customers : onOrderAgain(c)
  \/ \E c \in Customers : addToCart(c, 2)
  \/ \E c \in Customers : setCustomerName(c, <<" ", "J", " ">>)
  \/ onInsert("s1")
  \/ \E k \in 1..MaxOrders : onInsertFinish("s1", k)
  \/ disconnect("s1")
  \/ reconnect("s1")

SpecReconnect == InitJoined /\ [][NextReconnect]_vars

\* Two loaded dashboards, the first of the owner of the cafe, the second of
\* the same owner or of the owner of the bar; no push subscription yet.
InitPush ==
  /\ db_orders = <<>>
  /\ db_order_items = {}
  /\ now = 1
  /\ business = [c \in Customers |-> NULL]
  /\ products = [c \in Customers |-> <<>>]
  /\ cart = [c \in Customers |-> <<>>]
  /\ customerName = [c \in Customers |-> <<>>]
  /\ customerNote = [c \in Customers |-> <<>>]
  /\ submitting = [c \in Customers |-> FALSE]
  /\ confirmed = [c \in Customers |-> FALSE]
  /\ orderId = [c \in Customers |-> NULL]
  /\ alert = [c \in Customers |-> "none"]
  /\ pc = [c \in Customers |-> "idle"]
  /\ req = [c \in Customers |-> NoReq]
  /\ loading = [s \in Sessions |-> FALSE]
  /\ ordersData = [s \in Sessions |-> NULL]
  /\ orders = [s \in Sessions |-> <<>>]
  /\ calls = EmptyBag
  /\ uid = [c \in Customers |-> ANON]
  /\ \E u \in {"owner1", "owner2"} :
       /\ user = [s \in Sessions |-> IF s = "s1" THEN "owner1" ELSE u]
       /\ dash_business =
            [s \in Sessions |->
               IF s = "s1" \/ u = "owner1" THEN Some(DbBusinesses[1])
               ELSE Some(DbBusinesses[2])]
  /\ db_businesses = {DbBusinesses[i] : i \in 1..Len(DbBusinesses)}
  /\ uuid = 0
  /\ db_products = DbProducts
  /\ db_push_subscriptions = {}
  /\ error = [c \in Customers |-> FALSE]
  /\ channel = [s \in Sessions |-> "none"]
  /\ inbox = [s \in Sessions |-> <<>>]
  /\ fetched = [s \in Sessions |-> <<>>]
  /\ pushOn = [s \in Sessions |-> FALSE]
  /\ pushCalls = {}
  /\ dispatch = NoDispatch

\* The owners enabling push on two devices, again and again.
NextPush ==
  \/ \E s \in Sessions : \E granted \in BOOLEAN :
       \E endpoint \in {"e1", "e2"} : \E keys \in KeyPairs :
         subscribeToPush(s, granted, endpoint, keys)
  \/ \E call \in pushCalls : storeUpsertPush(call)
  \/ \E call \in pushCalls : subscribeToPushFinish(call)

SpecPush == InitPush /\ [][NextPush]_vars

\* The tables the registrations of the owners can have produced: every
\* endpoint is stored for the cafe, for the bar, or not at all.
DbPushSubscriptions ==
  {{pushRow(f[e], e, [p256dh |-> "p1", auth |-> "a1"]) :
      e \in {x \in Endpoints : f[x] # 0}} :
     f \in [Endpoints -> {0, 1, 2}]}

\* Some devices have been registered.
InitDispatch ==
  /\ db_orders = <<>>
  /\ db_order_items = {}
  /\ now = 1
  /\ business = [c \in Customers |-> NULL]
  /\ products = [c \in Customers |-> <<>>]
  /\ cart = [c \in Customers |-> <<>>]
  /\ customerName = [c \in Customers |-> <<>>]
  /\ customerNote = [c \in Customers |-> <<>>]
  /\ submitting = [c \in Customers |-> FALSE]
  /\ confirmed = [c \in Customers |-> FALSE]
  /\ orderId = [c \in Customers |-> NULL]
  /\ alert = [c \in Customers |-> "none"]
  /\ pc = [c \in Customers |-> "idle"]
  /\ req = [c \in Customers |-> NoReq]
  /\ loading = [s \in Sessions |-> FALSE]
  /\ ordersData = [s \in Sessions |-> NULL]
  /\ orders = [s \in Sessions |-> <<>>]
  /\ calls = EmptyBag
  /\ uid = [c \in Customers |-> ANON]
  /\ user = [s \in Sessions |-> IF s = "s1" THEN "owner1" ELSE "owner2"]
  /\ dash_business = [s \in Sessions |->
                        IF s = "s1" THEN Some(DbBusinesses[1])
                        ELSE Some(DbBusinesses[2])]
  /\ db_businesses = {DbBusinesses[i] : i \in 1..Len(DbBusinesses)}
  /\ uuid = 0
  /\ db_products = DbProducts
  /\ db_push_subscriptions \in DbPushSubscriptions
  /\ error = [c \in Customers |-> FALSE]
  /\ channel = [s \in Sessions |-> "none"]
  /\ inbox = [s \in Sessions |-> <<>>]
  /\ fetched = [s \in Sessions |-> <<>>]
  /\ pushOn = [s \in Sessions |-> TRUE]
  /\ pushCalls = {}
  /\ dispatch = NoDispatch

\* The notify-owner function called for one business or the other.
NextDispatch ==
  \/ \E b \in {1, 2} : \E ok \in BOOLEAN : notifyOwner(b, ok)
  \/ \E sub \in dispatch.subs : \E ok \in BOOLEAN :
       sendNotification(sub, ok)
  \/ notifyOwnerFinish

SpecDispatch == InitDispatch /\ [][NextDispatch]_vars

\* The customer page with step 6 of SETUP.md applied, and some devices
\* registered.
InitNotify ==
  /\ db_orders = <<>>
  /\ db_order_items = {}
  /\ now = 1
  /\ business = [c \in Customers |-> NULL]
  /\ products = [c \in Customers |-> <<>>]
  /\ cart = [c \in Customers |-> <<>>]
  /\ customerName = [c \in Customers |-> <<>>]
  /\ customerNote = [c \in Customers |-> <<>>]
  /\ submitting = [c \in Customers |-> FALSE]
  /\ confirmed = [c \in Customers |-> FALSE]
  /\ orderId = [c \in Customers |-> NULL]
  /\ alert = [c \in Customers |-> "none"]
  /\ pc = [c \in Customers |-> "idle"]
  /\ req = [c \in Customers |-> NoReq]
  /\ loading = [s \in Sessions |-> TRUE]
  /\ ordersData = [s \in Sessions |-> NULL]
  /\ orders = [s \in Sessions |-> <<>>]
  /\ calls = EmptyBag
  /\ uid \in [Customers -> {ANON, "owner1"}]
  /\ user = [s \in Sessions |-> "owner1"]
  /\ db_businesses = {DbBusinesses[i] : i \in 1..Len(DbBusinesses)}
  /\ uuid = 0
  /\ db_products = DbProducts
  /\ db_push_subscriptions \in
       {t \in DbPushSubscriptions : \A sub \in t : sub.endpoint # "e3"}
  /\ error = [c \in Customers |-> FALSE]
  /\ dash_business = [s \in Sessions |-> NULL]
  /\ channel = [s \in Sessions |-> "none"]
  /\ inbox = [s \in Sessions |-> <<>>]
  /\ fetched = [s \in Sessions |-> <<>>]
  /\ pushOn = [s \in Sessions |-> FALSE]
  /\ pushCalls = {}
  /\ dispatch = NoDispatch

\* One customer placing orders, each followed by the call of notify-owner.
NextNotify ==
  \/ load("c1", "cafe")
  \/ \E id \in ProductIds : addToCart("c1", id)
  \/ \E name \in Names : setCustomerName("c1", name)
  \/ submitOrder("c1")
  \/ storeInsertOrder("c1")
  \/ submitOrderNotify("c1")
  \/ \E ok, read \in BOOLEAN : fetchNotifyOwner("c1", ok, read)
  \/ \E sub \in dispatch.subs : \E ok \in BOOLEAN :
       sendNotification(sub, ok)
  \/ notifyOwnerFinish
  \/ fetchNotifyOwnerFinish("c1")
  \/ submitOrderAfterNotify("c1")
  \/ storeInsertItems("c1")
  \/ submitOrderFinish("c1")
  \/ onOrderAgain("c1")

SpecNotify == InitNotify /\ [][NextNotify]_vars

\* Two orders of the cafe as two intakes leave them in the store.
StoredOrders ==
  <<[id |-> 1, business_id |-> 1, customer_name |-> <<"J">>,
     customer_note |-> NULL, status |-> "pending", total |-> 1200,
     fulfilled_at |-> NULL],
    [id |-> 2, business_id |-> 1, customer_name |-> <<"J">>,
     customer_note |-> NULL, status |-> "pending", total |-> 300,
     fulfilled_at |-> NULL]>>

StoredItems ==
  lineItems(1, SelectSeq(DbProducts, LAMBDA p : p.business_id = 1),
            FilledCart) \cup
  lineItems(2, SelectSeq(DbProducts, LAMBDA p : p.id = 2), (2 :> 1))

\* Both orders placed, and the dashboards loaded with them.
InitFrame ==
  /\ db_orders = StoredOrders
  /\ db_order_items = StoredItems
  /\ now = 1
  /\ business = [c \in Customers |-> Some(DbBusinesses[1])]
  /\ products = [c \in Customers |->
                   SelectSeq(DbProducts, LAMBDA p : p.business_id = 1)]
  /\ cart = [c \in Customers |-> IF c = "c1" THEN FilledCart ELSE (2 :> 1)]
  /\ customerName = [c \in Customers |-> <<" ", "J", " ">>]
  /\ customerNote = [c \in Customers |-> <<>>]
  /\ submitting = [c \in Customers |-> FALSE]
  /\ confirmed = [c \in Customers |-> FALSE]
  /\ orderId = [c \in Customers |-> NULL]
  /\ alert = [c \in Customers |-> "none"]
  /\ pc = [c \in Customers |-> "idle"]
  /\ req = [c \in Customers |-> NoReq]
  /\ loading = [s \in Sessions |-> FALSE]
  /\ ordersData = [s \in Sessions |-> NULL]
  /\ orders = [s \in Sessions |->
                 Reverse([i \in 1..Len(StoredOrders) |->
                   [id |-> StoredOrders[i].id,
                    business_id |-> StoredOrders[i].business_id,
                    customer_name |-> StoredOrders[i].customer_name,
                    customer_note |-> StoredOrders[i].customer_note,
                    status |-> StoredOrders[i].status,
                    total |-> StoredOrders[i].total,
                    fulfilled_at |-> StoredOrders[i].fulfilled_at,
                    order_items |-> {it \in StoredItems :
                                       it.order_id = StoredOrders[i].id}]])]
  /\ calls = EmptyBag
  /\ uid = [c \in Customers |-> "owner1"]
  /\ user = [s \in Sessions |-> "owner1"]
  /\ db_businesses = {DbBusinesses[i] : i \in 1..Len(DbBusinesses)}
  /\ uuid = Len(StoredOrders)
  /\ db_products = DbProducts
  /\ db_push_subscriptions = {}
  /\ error = [c \in Customers |-> FALSE]
  /\ dash_business = [s \in Sessions |-> Some(DbBusinesses[1])]
  /\ channel = [s \in Sessions |-> "none"]
  /\ inbox = [s \in Sessions |-> <<>>]
  /\ fetched = [s \in Sessions |-> <<>>]
  /\ pushOn = [s \in Sessions |-> FALSE]
  /\ pushCalls = {}
  /\ dispatch = NoDispatch

\* The owner advancing the two orders in one session, one call on an order
\* at a time.
NextFrame ==
  \/ \E i \in 1..Len(StoredOrders) :
       /\ \A call \in Inflight : call.id # orders["s1"][i].id
       /\ advanceStatus("s1", i)
  \/ UpdateSteps

SpecFrame == InitFrame /\ [][NextFrame]_vars

\* A customer who loaded the menu places an order while the owner, in one
\* session, edits, hides and deletes products.
NextCatalog ==
  \/ IntakeSteps
  \/ \E id \in ProductIds : \E name \in ProductNames :
       \E price \in ProductPrices : \E available, ok \in BOOLEAN :
         saveProduct("s1", id, name, price, available, ok)
  \/ \E id \in ProductIds : \E shown, ok \in BOOLEAN :
       toggleAvailability("s1", id, shown, ok)
  \/ \E id \in ProductIds : \E ok \in BOOLEAN : deleteProduct("s1", id, ok)

SpecCatalog == InitLifecycle /\ [][NextCatalog]_vars

\* One customer of the cafe adding and removing products and placing
\* orders under one name.
NextCart ==
  \/ load("c1", "cafe")
  \/ \E id \in ProductIds : addToCart("c1", id)
  \/ \E id \in ProductIds : removeFromCart("c1", id)
  \/ setCustomerName("c1", <<" ", "J", " ">>)
  \/ submitOrder("c1")
  \/ storeInsertOrder("c1")
  \/ submitOrderItems("c1")
  \/ storeInsertItems("c1")
  \/ submitOrderFinish("c1")
  \/ onOrderAgain("c1")

SpecCart == Init /\ [][NextCart]_vars

\* Both orders placed, and two dashboards of the owner loaded with them
\* and connected.
InitConverge ==
  /\ db_orders = StoredOrders
  /\ db_order_items = StoredItems
  /\ now = 1
  /\ business = [c \in Customers |-> Some(DbBusinesses[1])]
  /\ products = [c \in Customers |->
                   SelectSeq(DbProducts, LAMBDA p : p.business_id = 1)]
  /\ cart = [c \in Customers |-> IF c = "c1" THEN FilledCart ELSE (2 :> 1)]
  /\ customerName = [c \in Customers |-> <<" ", "J", " ">>]
  /\ customerNote = [c \in Customers |-> <<>>]
  /\ submitting = [c \in Customers |-> FALSE]
  /\ confirmed = [c \in Customers |-> FALSE]
  /\ orderId = [c \in Customers |-> NULL]
  /\ alert = [c \in Customers |-> "none"]
  /\ pc = [c \in Customers |-> "idle"]
  /\ req = [c \in Customers |-> NoReq]
  /\ loading = [s \in Sessions |-> FALSE]
  /\ ordersData = [s \in Sessions |-> NULL]
  /\ orders = [s \in Sessions |->
                 Reverse([i \in 1..Len(StoredOrders) |->
                   [id |-> StoredOrders[i].id,
                    business_id |-> StoredOrders[i].business_id,
                    customer_name |-> StoredOrders[i].customer_name,
                    customer_note |-> StoredOrders[i].customer_note,
                    status |-> StoredOrders[i].status,
                    total |-> StoredOrders[i].total,
                    fulfilled_at |-> StoredOrders[i].fulfilled_at,
                    order_items |-> {it \in StoredItems :
                                       it.order_id = StoredOrders[i].id}]])]
  /\ calls = EmptyBag
  /\ uid = [c \in Customers |-> "owner1"]
  /\ user = [s \in Sessions |-> "owner1"]
  /\ db_businesses = {DbBusinesses[i] : i \in 1..Len(DbBusinesses)}
  /\ uuid = Len(StoredOrders)
  /\ db_products = DbProducts
  /\ db_push_subscriptions = {}
  /\ error = [c \in Customers |-> FALSE]
  /\ dash_business = [s \in Sessions |-> Some(DbBusinesses[1])]
  /\ channel = [s \in Sessions |-> "joined"]
  /\ inbox = [s \in Sessions |-> <<>>]
  /\ fetched = [s \in Sessions |-> <<>>]
  /\ pushOn = [s \in Sessions |-> FALSE]
  /\ pushCalls = {}
  /\ dispatch = NoDispatch

\* The owner advancing the newest order in both sessions, in each of them
\* one call at a time and after the events received have been handled; no
\* request fails, and every event is delivered.
NextConverge ==
  \/ \E s \in Sessions :
       /\ inbox[s] = <<>>
       /\ \A call \in Inflight : call.sess # s
       /\ advanceStatus(s, 1)
  \/ \E call \in Inflight : storeUpdateOrderWith(call, TRUE)
  \/ \E call \in Inflight : advanceStatusFinish(call)
  \/ \E s \in Sessions : onUpdate(s)

SpecConverge == InitConverge /\ [][NextConverge]_vars

\* One owner session, and update requests that others send to the store.
NextAccess ==
  \/ NextSingle
  \/ \E u \in {ANON, "owner2"} : \E id \in 1..MaxOrders :
       \E st \in {"fulfilled", "cancelled"} :
         apiUpdate(u, id, updatePayload(st, now))
  \/ \E call \in Inflight : apiUpdateFinish(call)

SpecAccess == InitLifecycle /\ [][NextAccess]_vars

\* One owner session, and orders that get cancelled in the store.
NextCancelled ==
  \/ NextSingle
  \/ \E id \in 1..MaxOrders : cancelOrder(id)

SpecCancelled == InitLifecycle /\ [][NextCancelled]_vars

\* ------------------------------------------------------------ the claims
\* The chain pending -> preparing -> ready -> fulfilled, as the
\* specification of the status transition engine states it.
SuccessorInChain(st) ==
  CASE st = "pending"   -> "preparing"
    [] st = "preparing" -> "ready"
    [] st = "ready"     -> "fulfilled"
    [] OTHER            -> "none"

ItemsOf(id) == {it \in db_order_items : it.order_id = id}

RECURSIVE SumItems(_)
SumItems(S) ==
  IF S = {} THEN 0
  ELSE LET it == CHOOSE x \in S : TRUE
       IN  it.price * it.quantity + SumItems(S \ {it})

\* C1: with one owner session, every advanceStatus invocation that reaches
\* the store was issued on a pending, preparing or ready order (never on a
\* fulfilled one) and asks for exactly the successor of the status it read,
\* with fulfilled_at only on the step into fulfilled; and when the store
\* applies it to a row that still holds the status read, that row, and no
\* other, moves to exactly the successor.
C1_AdvanceMovesOneStep ==
  /\ [](\A call \in Inflight :
          /\ call.read \in {"pending", "preparing", "ready"}
          /\ call.payload.status = SuccessorInChain(call.read)
          /\ (call.payload.fulfilled_at # NULL <=> call.read = "ready"))
  /\ [][\A call \in Inflight :
          ( /\ call.phase = "update_sent"
            /\ calls' = Replace(call, [call EXCEPT
                                         !.phase = "update_returned",
                                         !.applied = TRUE])
            /\ db_orders[call.id].status = call.read )
          => /\ db_orders'[call.id].status = SuccessorInChain(call.read)
             /\ \A o \in 1..Len(db_orders) :
                  o # call.id => db_orders'[o] = db_orders[o]]_vars

\* C1 witness: the third advance of an order, alone in flight, has been
\* applied to a row that held ready, and the row is now fulfilled.
C1_Witness ==
  \E call \in Inflight :
    /\ call.phase = "update_returned"
    /\ call.applied
    /\ call.read = "ready"
    /\ db_orders[call.id].status = "fulfilled"
    /\ db_orders[call.id].fulfilled_at = call.payload.fulfilled_at
    /\ BagCardinality(calls) = 1

\* C2: every change of an order's stored status is one step forward along
\* the chain; a fulfilled order's status never changes.
C2_StatusOnlyStepsForward ==
  [][\A o \in 1..Len(db_orders) :
       db_orders'[o].status # db_orders[o].status
         => db_orders'[o].status = SuccessorInChain(db_orders[o].status)]_vars

\* C3: of the advanceStatus invocations that are in flight together on the
\* same order, all having read preparing and all answered by the store, at
\* most one has had its update applied.
C3_RaceHasOneWinner ==
  \A id \in 1..Len(db_orders) :
    LET winners == {call \in Inflight :
                      /\ call.id = id
                      /\ call.read = "preparing"
                      /\ call.phase = "update_returned"
                      /\ call.applied}
    IN  BagCardinality([call \in winners |-> calls[call]]) <= 1

\* C4: an order's fulfilled_at is set if and only if its status is fulfilled.
C4_FulfilledAtIffFulfilled ==
  \A o \in 1..Len(db_orders) :
    db_orders[o].fulfilled_at # NULL <=> db_orders[o].status = "fulfilled"

\* C5: once an order's fulfilled_at is set, no step changes it.
C5_FulfilledAtWrittenOnce ==
  [][\A o \in 1..Len(db_orders) :
       db_orders[o].fulfilled_at # NULL
         => db_orders'[o].fulfilled_at = db_orders[o].fulfilled_at]_vars

\* C6: an advanceStatus invocation on an order it read as cancelled never
\* has an update applied by the store.
C6_CancelledAdvanceNotApplied ==
  \A call \in Inflight : call.read = "cancelled" => ~call.applied

\* C7: the confirmation is shown only for an order whose row and line items
\* are in the store, and only by the step that follows a line-item insert
\* returned without error; a failed insert ends the call with the failure
\* alert and no confirmation; submitting is true exactly while a call runs.
C7_ConfirmedOnlyAfterBothInserts ==
  /\ [](\A c \in Customers :
          /\ confirmed[c] =>
               /\ orderId[c] # NULL
               /\ orderId[c][1] \in 1..Len(db_orders)
               /\ ItemsOf(orderId[c][1]) # {}
          /\ submitting[c] <=> pc[c] # "idle")
  /\ [][\A c \in Customers :
          /\ (~confirmed[c] /\ confirmed'[c]) =>
               /\ pc[c] = "items_returned"
               /\ ~req[c].orderErr
               /\ ~req[c].itemsErr
          /\ ( /\ pc[c] \in {"order_returned", "items_returned"}
               /\ pc'[c] = "idle"
               /\ (req[c].orderErr \/ req[c].itemsErr) )
             => /\ alert'[c] = "failed"
                /\ ~confirmed'[c]
                /\ ~submitting'[c]]_vars

\* C7 witness: a call has ended after its line-item insert failed: the
\* order row is stored without line items, the failure alert was raised,
\* nothing is confirmed.
C7_Witness ==
  \E c \in Customers :
    /\ pc[c] = "idle"
    /\ alert[c] = "failed"
    /\ ~confirmed[c]
    /\ ~submitting[c]
    /\ Len(db_orders) = 1
    /\ ItemsOf(1) = {}

\* C8: every order row in the store has its line items.
C8_NoOrderWithoutItems ==
  \A o \in 1..Len(db_orders) : ItemsOf(o) # {}

\* C9: every stored order whose line items were inserted has as total the
\* sum of price x quantity over those line items, each line item carries
\* the name and price of its product, and the line items inserted by a call
\* are the products of its cart with their quantities.
C9_TotalIsSumOfLineItems ==
  /\ \A o \in 1..Len(db_orders) :
       ItemsOf(o) # {} => db_orders[o].total = SumItems(ItemsOf(o))
  /\ \A it \in db_order_items :
       \E i \in 1..Len(DbProducts) :
         /\ DbProducts[i].id = it.product_id
         /\ DbProducts[i].name = it.name
         /\ DbProducts[i].price = it.price
         /\ it.quantity >= 1
  /\ \A c \in Customers :
       (pc[c] = "items_returned" /\ ~req[c].itemsErr) =>
         {<<it.product_id, it.quantity>> : it \in ItemsOf(req[c].order[1].id)}
           = {<<id, req[c].cart[id]>> :
                id \in {j \in DOMAIN req[c].cart : req[c].cart[j] # 0}}

\* C9 witness: the cart Latte x 2, Muffin x 1 is stored as an order of
\* 12.00 with two line items.
C9_Witness ==
  /\ Len(db_orders) >= 1
  /\ db_orders[1].total = 1200
  /\ Cardinality(ItemsOf(1)) = 2

\* A name of blanks only, or a cart without any unit in it.
InvalidForm(c) ==
  \/ \A i \in 1..Len(customerName[c]) : customerName[c][i] = " "
  \/ \A id \in DOMAIN cart[c] : cart[c][id] = 0

\* C10: from a form with a blank name or an empty cart no step starts a
\* store request, inserts a row or shows the confirmation.
C10_InvalidFormCreatesNothing ==
  [][\A c \in Customers :
       (pc[c] = "idle" /\ InvalidForm(c))
         => /\ pc'[c] = "idle"
            /\ db_orders' = db_orders
            /\ db_order_items' = db_order_items
            /\ ~confirmed'[c]]_vars

\* C10 witness: submitOrder was called with a name of one blank and a
\* filled cart; it raised the name alert and the store is empty.
C10_Witness ==
  \E c \in Customers :
    /\ customerName[c] = <<" ">>
    /\ DOMAIN cart[c] # {}
    /\ alert[c] = "name"
    /\ pc[c] = "idle"
    /\ db_orders = <<>>
    /\ db_order_items = {}
    /\ ~confirmed[c]

\* A row of orders or of order_items that refers to nothing stored.
Dangling ==
  \/ \E o \in 1..Len(db_orders) : ~businessExists(db_orders[o].business_id)
  \/ \E it \in db_order_items : ~orderExists(it.order_id)

\* C11: the row an insert of submitOrder has just stored and returned has
\* status pending and no fulfilled_at, and so has every row in the store
\* as long as nobody advances an order.
C11_InsertedPendingUnfulfilled ==
  /\ \A c \in Customers :
       (pc[c] = "order_returned" /\ ~req[c].orderErr) =>
         /\ req[c].order[1].status = "pending"
         /\ req[c].order[1].fulfilled_at = NULL
         /\ \E o \in 1..Len(db_orders) : db_orders[o] = req[c].order[1]
  /\ \A o \in 1..Len(db_orders) :
       /\ db_orders[o].status = "pending"
       /\ db_orders[o].fulfilled_at = NULL

\* C11 witness: an order with a note has just been inserted.
C11_Witness ==
  \E c \in Customers :
    /\ pc[c] = "order_returned"
    /\ ~req[c].orderErr
    /\ req[c].order[1].customer_note = Some(<<"n">>)
    /\ req[c].order[1].customer_name = <<"J">>
    /\ Len(db_orders) = 1

\* C12: no stored order refers to a business that is not stored and no line
\* item to an order that is not stored; a page opened with an unknown slug
\* never gets a business, starts no call and confirms nothing; and an
\* insert of an order for a business that is no longer stored is refused,
\* stores nothing, and ends the call with the failure alert and without
\* confirmation.
C12_UnknownBusinessPersistsNothing ==
  /\ [](~Dangling)
  /\ [](\A c \in Customers :
          error[c] => /\ business[c] = NULL
                      /\ pc[c] = "idle"
                      /\ ~confirmed[c])
  /\ [][\A c \in Customers :
          /\ ( /\ pc[c] = "insert_order"
               /\ pc'[c] = "order_returned"
               /\ ~businessExists(req[c].order[1].business_id) )
             => /\ req'[c].orderErr
                /\ db_orders' = db_orders
                /\ db_order_items' = db_order_items
          /\ ( /\ pc[c] = "order_returned"
               /\ pc'[c] # "order_returned"
               /\ req[c].orderErr )
             => /\ pc'[c] = "idle"
                /\ alert'[c] = "failed"
                /\ ~confirmed'[c]
                /\ db_orders' = db_orders
                /\ db_order_items' = db_order_items]_vars

\* C12 witness: the owner of the cafe, signed in, filled in the form of
\* the cafe; the business was deleted; submitOrder ended with the failure
\* alert and the store holds no order and no line item.
C12_Witness ==
  \E c \in Customers :
    /\ uid[c] = "owner1"
    /\ business[c] # NULL
    /\ business[c][1].slug = "cafe"
    /\ ~businessExists(business[c][1].id)
    /\ pc[c] = "idle"
    /\ alert[c] = "failed"
    /\ ~confirmed[c]
    /\ db_orders = <<>>
    /\ db_order_items = {}

\* C13: the insert of an order by a customer who is not signed in, for a
\* business that is stored, is never refused by the store.
C13_AnonymousIntakeNotRefused ==
  \A c \in Customers :
    ( /\ uid[c] = ANON
      /\ pc[c] = "order_returned"
      /\ business[c] # NULL
      /\ businessExists(business[c][1].id) )
    => ~req[c].denied

\* C14: a step changes the status or fulfilled_at of a stored order only by
\* executing an update request of the owner of the order's business, and
\* no request of anybody else is answered as having updated a row.
C14_OnlyOwnerChangesStatus ==
  /\ [](\A call \in Inflight :
          (call.phase = "update_returned" /\ call.applied)
            => \E o \in 1..Len(db_orders) :
                 /\ db_orders[o].id = call.id
                 /\ isOwner(call.uid, db_orders[o].business_id))
  /\ [][\A o \in 1..Len(db_orders) :
          ( \/ db_orders'[o].status # db_orders[o].status
            \/ db_orders'[o].fulfilled_at # db_orders[o].fulfilled_at )
          => \E call \in Inflight :
               /\ call.phase = "update_sent"
               /\ call.id = db_orders[o].id
               /\ isOwner(call.uid, db_orders[o].business_id)
               /\ calls' = Replace(call, [call EXCEPT
                                            !.phase = "update_returned",
                                            !.applied = TRUE])]_vars

\* C14 witness: the owner of the bar asked for an order of the cafe to be
\* fulfilled; the store answered; the order is still pending and has no
\* fulfilled_at.
C14_Witness ==
  \E call \in Inflight :
    /\ call.sess = "api"
    /\ call.uid = "owner2"
    /\ call.payload.status = "fulfilled"
    /\ call.phase = "update_returned"
    /\ ~call.applied
    /\ db_orders[call.id].business_id = 1
    /\ db_orders[call.id].status = "pending"
    /\ db_orders[call.id].fulfilled_at = NULL

\* C15: everything a session holds or has been sent belongs to its own
\* business: the orders of its list, the answer of its initial query, the
\* events in its inbox and the orders its INSERT handler has fetched.
C15_SessionSeesOwnBusinessOnly ==
  \A s \in Sessions :
    dash_business[s] # NULL =>
      LET mine == dash_business[s][1].id IN
      /\ \A i \in 1..Len(orders[s]) : orders[s][i].business_id = mine
      /\ ordersData[s] # NULL =>
           \A i \in 1..Len(ordersData[s][1]) :
             ordersData[s][1][i].business_id = mine
      /\ \A i \in 1..Len(inbox[s]) : inbox[s][i].new.business_id = mine
      /\ \A i \in 1..Len(fetched[s]) :
           fetched[s][i] # NULL => fetched[s][i][1].business_id = mine

\* C15 witness: the dashboard of the cafe is loaded and subscribed, an
\* order of the bar was placed and moved to preparing, and the session has
\* nothing in its list, its inbox or its handlers.
C15_Witness ==
  /\ channel["s1"] = "joined"
  /\ ~loading["s1"]
  /\ dash_business["s1"][1].id = 1
  /\ Len(db_orders) = 1
  /\ db_orders[1].business_id = 2
  /\ db_orders[1].status = "preparing"
  /\ orders["s1"] = <<>>
  /\ inbox["s1"] = <<>>
  /\ fetched["s1"] = <<>>

\* C16: the order list of a session never holds two entries with the same
\* order id.
C16_NoDuplicateOrderIds ==
  \A s \in Sessions :
    \A i, j \in 1..Len(orders[s]) :
      i # j => orders[s][i].id # orders[s][j].id

\* Nothing is under way: no call of a customer, no update request, no
\* event waiting for its handler, no handler waiting for the store.
Quiet ==
  /\ \A c \in Customers : pc[c] = "idle"
  /\ calls = EmptyBag
  /\ \A s \in Sessions : inbox[s] = <<>> /\ fetched[s] = <<>>

\* The list of s has every stored order of its business, with its status.
ListMatchesStore(s) ==
  \A o \in 1..Len(db_orders) :
    db_orders[o].business_id = dash_business[s][1].id =>
      \E i \in 1..Len(orders[s]) :
        /\ orders[s][i].id = db_orders[o].id
        /\ orders[s][i].status = db_orders[o].status

\* C17: whenever a loaded session is connected and nothing is under way,
\* its list has every order of its business with the stored status.
C17_ReconnectedSessionCatchesUp ==
  \A s \in Sessions :
    (~loading[s] /\ channel[s] = "joined" /\ Quiet) => ListMatchesStore(s)

\* The records stored for an endpoint.
storedFor(endpoint) ==
  {sub \in db_push_subscriptions : sub.endpoint = endpoint}

\* The store accepts the upsert of call in this step.
Registers(call) ==
  /\ call \in pushCalls
  /\ call.phase = "upsert_sent"
  /\ pushCalls' = (pushCalls \ {call}) \cup
                    {[call EXCEPT !.phase = "returned"]}

\* C18: push_subscriptions never holds two records with the same endpoint,
\* and when the store accepts the registration of an endpoint it holds with
\* other keys, it holds afterwards exactly one record for that endpoint,
\* the one with the keys just sent.
C18_OneRecordPerEndpoint ==
  /\ [](\A sub1, sub2 \in db_push_subscriptions :
          sub1.endpoint = sub2.endpoint => sub1 = sub2)
  /\ [][\A call \in pushCalls :
          (/\ Registers(call)
           /\ \E old \in storedFor(call.row.endpoint) :
                old.p256dh # call.row.p256dh \/ old.auth # call.row.auth)
          => {sub \in db_push_subscriptions' :
                sub.endpoint = call.row.endpoint} = {call.row}]_vars

\* Two registrations of one endpoint with different keys were both
\* accepted, and the table holds the keys of the one that came second.
C18_Witness ==
  \E c1, c2 \in pushCalls :
    /\ c1.phase = "returned" /\ ~c1.err
    /\ c2.phase = "returned" /\ ~c2.err
    /\ c1.row.endpoint = c2.row.endpoint
    /\ c1.row.p256dh # c2.row.p256dh
    /\ storedFor(c2.row.endpoint) = {c2.row}

\* C19: when the store answers the registration of an endpoint that it
\* holds for another business, the endpoint is afterwards stored for the
\* new business with the keys sent, and no longer for the old business.
C19_SwitchingBusinessMovesRecord ==
  [][\A call \in pushCalls :
       \A old \in storedFor(call.row.endpoint) :
         (/\ call.phase = "upsert_sent"
          /\ old.business_id # call.row.business_id
          /\ \E answered \in pushCalls' :
               /\ answered \notin pushCalls
               /\ answered.sess = call.sess
               /\ answered.phase = "returned"
               /\ ~answered.err \/ answered.denied)
         => /\ call.row \in db_push_subscriptions'
            /\ old \notin db_push_subscriptions']_vars

\* C20: a run of notify-owner that has read the subscriptions sends to the
\* subscriptions stored for the business of the request and to no other;
\* a run answers only when every one of its sends has settled, delivered or
\* failed, and it answers "ok".
C20_DispatcherAttemptsAll ==
  /\ [](dispatch.phase # "idle" =>
          /\ \A sub \in dispatch.subs :
               sub.business_id = dispatch.business_id
          /\ dispatch.sent \cup dispatch.failed \subseteq dispatch.subs)
  /\ [](dispatch.phase = "done" =>
          /\ dispatch.sent \cup dispatch.failed = dispatch.subs
          /\ dispatch.response = "ok")
  /\ [][(dispatch.phase = "idle" /\ dispatch'.phase = "sending"
          /\ dispatch'.read) =>
          dispatch'.subs = {sub \in db_push_subscriptions :
                              sub.business_id = dispatch'.business_id}]_vars

\* A run has answered after one delivery failed and another succeeded,
\* while a subscription of the other business is stored.
C20_Witness ==
  /\ dispatch.phase = "done"
  /\ dispatch.response = "ok"
  /\ dispatch.failed # {}
  /\ dispatch.sent # {}
  /\ \E sub \in db_push_subscriptions :
       sub.business_id # dispatch.business_id

\* C21: when a customer is shown the confirmation of an intake, a run of
\* the notify-owner function has been started for it.
C21_CommittedIntakeTriggersDispatcher ==
  \A c \in Customers : confirmed[c] => dispatch.phase # "idle"

C23_FailedUpdateLeavesListUnchanged ==
  [][\A call \in Inflight :
       (/\ call.sess \in Sessions
        /\ call.phase = "update_returned"
        /\ ~call.applied
        /\ calls' = calls (-) SetToBag({call}))
       => orders'[call.sess] = orders[call.sess]]_vars

\* C24: when subscribeToPush continues after an upsert that failed or was
\* refused, the dashboard does not show push as enabled.
C24_PushOnOnlyIfStored ==
  [][\A call \in pushCalls :
       (/\ call.phase = "returned"
        /\ call.err
        /\ pushCalls' = pushCalls \ {call})
       => ~pushOn'[call.sess]]_vars

\* C25: no event is handled before the list of the initial fetch is in
\* place: the step that puts it in place finds no order in the list that
\* a handler put there, so it removes none.
C25_FetchAppliedBeforeEvents ==
  [][\A s \in Sessions :
       (loading[s] /\ ~loading'[s]) =>
         \A i \in 1..Len(orders[s]) :
           \E j \in 1..Len(orders'[s]) :
             orders'[s][j].id = orders[s][i].id]_vars

\* C26: once the intake has finished and nothing is under way, every entry
\* of a session's list carries the line items stored for its order.
C26_InsertedEntryHasLineItems ==
  \A s \in Sessions :
    Quiet => \A i \in 1..Len(orders[s]) :
               orders[s][i].order_items = ItemsOf(orders[s][i].id)

\* The columns of an order row, or of an entry of a list, that an advance
\* leaves alone.
SameButStatus(a, b) ==
  /\ a.id = b.id
  /\ a.business_id = b.business_id
  /\ a.customer_name = b.customer_name
  /\ a.customer_note = b.customer_note
  /\ a.total = b.total

\* C27: with the owner advancing orders, a step changes at most one order
\* row, the row of an advanceStatus call at the store, and of it only the
\* status and, when the call writes fulfilled, fulfilled_at; no line item
\* changes; and in the list of the session only the status of the entries
\* of the order of a call changes.
C27_AdvanceChangesStatusOnly ==
  [][/\ db_order_items' = db_order_items
     /\ Len(db_orders') = Len(db_orders)
     /\ \A o \in 1..Len(db_orders) :
          /\ SameButStatus(db_orders[o], db_orders'[o])
          /\ db_orders'[o] # db_orders[o] =>
               /\ \A o2 \in 1..Len(db_orders) :
                    o2 # o => db_orders'[o2] = db_orders[o2]
               /\ \E call \in Inflight :
                    /\ call.id = db_orders[o].id
                    /\ call.phase = "update_sent"
                    /\ db_orders'[o].status = call.payload.status
                    /\ (db_orders'[o].fulfilled_at # db_orders[o].fulfilled_at
                          => call.payload.status = "fulfilled")
     /\ \A s \in Sessions :
          /\ Len(orders'[s]) = Len(orders[s])
          /\ \A i \in 1..Len(orders[s]) :
               /\ SameButStatus(orders[s][i], orders'[s][i])
               /\ orders'[s][i].order_items = orders[s][i].order_items
               /\ orders'[s][i] # orders[s][i] =>
                    \E call \in Inflight :
                      /\ call.id = orders[s][i].id
                      /\ call.phase = "update_returned"]_vars

\* The first order has been advanced to fulfilled and the second to
\* preparing; totals and line items are those of the intake.
C27_Witness ==
  /\ db_orders[1].status = "fulfilled"
  /\ db_orders[1].fulfilled_at # NULL
  /\ db_orders[2].status = "preparing"
  /\ db_orders[1].total = SumItems(ItemsOf(1))
  /\ db_orders[2].total = SumItems(ItemsOf(2))
  /\ calls = EmptyBag

\* C28: a step that changes the products changes no order row, and leaves
\* every line item with its order, name, price and quantity; its product
\* reference stays, or is null when its product is no longer stored.  Every
\* order with line items keeps a total equal to their sum.
C28_LineItemsAreSnapshots ==
  /\ [](\A o \in 1..Len(db_orders) :
          ItemsOf(o) # {} => db_orders[o].total = SumItems(ItemsOf(o)))
  /\ [](\A it \in db_order_items :
          it.product_id # NoProduct => productExists(it.product_id))
  /\ [][db_products' # db_products =>
          /\ db_orders' = db_orders
          /\ Cardinality(db_order_items') = Cardinality(db_order_items)
          /\ \A it \in db_order_items :
               \E it2 \in db_order_items' :
                 /\ it2.order_id = it.order_id
                 /\ it2.name = it.name
                 /\ it2.price = it.price
                 /\ it2.quantity = it.quantity
                 /\ \/ it2.product_id = it.product_id
                    \/ /\ it2.product_id = NoProduct
                       /\ \A i \in 1..Len(db_products') :
                            db_products'[i].id # it.product_id]_vars

\* The order Latte x 2, Muffin x 1 is stored with its line items; since
\* then the Latte was deleted and the Muffin renamed, repriced and hidden.
C28_Witness ==
  /\ Len(db_orders) = 1
  /\ db_orders[1].total = 1200
  /\ ItemsOf(1) =
       {[order_id |-> 1, product_id |-> NoProduct, name |-> "Latte",
         price |-> 450, quantity |-> 2],
        [order_id |-> 1, product_id |-> 2, name |-> "Muffin",
         price |-> 300, quantity |-> 1]}
  /\ Len(db_products) = 2
  /\ db_products[1] = [id |-> 2, business_id |-> 1, name |-> "Mocha",
                       price |-> 500, available |-> FALSE]

\* C29: every entry of a cart has a quantity of at least 1, and so has
\* every line item that submitOrder builds and every line item stored;
\* while the form is open, a step that lowers the quantity of a product
\* lowers it by one, and the entry is gone when no unit is left.
C29_CartQuantitiesPositive ==
  /\ [](\A c \in Customers : \A id \in DOMAIN cart[c] :
          cart[c][id] \in Nat /\ cart[c][id] >= 1)
  /\ [](\A c \in Customers : \A it \in req[c].items : it.quantity >= 1)
  /\ [](\A it \in db_order_items : it.quantity >= 1)
  /\ [][\A c \in Customers : \A id \in DOMAIN cart[c] :
          (~confirmed[c] /\ Qty(cart'[c], id) < cart[c][id]) =>
            /\ Qty(cart'[c], id) = cart[c][id] - 1
            /\ (cart[c][id] = 1 => id \notin DOMAIN cart'[c])]_vars

\* A submitOrder call that captured Latte x 2 is under way, and both
\* units have since been removed from the cart, which holds no entry for
\* the Latte.
C29_Witness ==
  /\ pc["c1"] # "idle"
  /\ Qty(req["c1"].cart, 1) = 2
  /\ 1 \notin DOMAIN cart["c1"]
  /\ 2 \in DOMAIN cart["c1"]

\* C30: whenever a loaded, connected session has nothing under way and
\* nothing left to handle, the status it shows for each order of its list
\* is the stored status.
C30_ViewConvergesToStore ==
  \A s \in Sessions :
    (~loading[s] /\ channel[s] = "joined" /\ Quiet) =>
      \A i \in 1..Len(orders[s]) :
        \A o \in 1..Len(db_orders) :
          db_orders[o].id = orders[s][i].id =>
            orders[s][i].status = db_orders[o].status
====
